---- MODULE Spec2Model ----
(***************************************************************************)
(* A model of the spark-sched scheduler (spark-scheduler/src): the pod     *)
(* queue, the schedule tasks spawned by Scheduler::run, the renewal task,  *)
(* the predicate and the priority functions of predprio.rs.                *)
(***************************************************************************)
EXTENDS Integers, Sequences, FiniteSets, TLC

(***************************************************************************)
(* Bounds of the model.                                                    *)
(***************************************************************************)
\* number of nodes of the cluster (a prefix of NodeNames)
NrNode == 3
\* number of pods the orchestrator lists to the predicate
MaxBound == 2
\* number of workloads of a batch handed to a planner
MaxWorkloads == 4
\* total_core of the cluster state handed to a planner
MaxCores == 24
\* total_core of the cluster state handed to the profiled planner
MaxProfiledCores == 8
\* number of pods the environment creates in the namespace
MaxPods == 2
\* number of priority calls per group followed by SpecPrio
MaxCalls == 4

(***************************************************************************)
(* Program constants.                                                      *)
(***************************************************************************)
\* u32::MAX, the bandwidth of a self pair. Only its order among the other
\* bandwidths is used; the value is the largest integer TLC represents.
U32_MAX == 2147483647
DEFAULT_COMPUTE_WORKLOAD == "compute"
DEFAULT_MASTER_NODE_NAME == "node02"
STORAGE_NODE == "xyji"

\* The nodes the hard-coded bandwidth map knows, in the order it names them.
NodeNames == <<"node1", "node02", "node03", "xyji">>

\* The node list the orchestrator returns (Api::all(client).list).
node_list == SubSeq(NodeNames, 1, NrNode)
Nodes == {node_list[i] : i \in 1..Len(node_list)}

hard_coded_network_bandwidth_map ==
    [pr \in {<<NodeNames[i], NodeNames[j]>> : i, j \in 1..Len(NodeNames)} |->
        IF pr[1] = pr[2] THEN U32_MAX
        ELSE IF {pr[1], pr[2]} = {"node1", "node02"} THEN 100
        ELSE IF {pr[1], pr[2]} = {"node1", "node03"} THEN 100
        ELSE IF {pr[1], pr[2]} = {"node1", "xyji"} THEN 5
        ELSE IF {pr[1], pr[2]} = {"node02", "node03"} THEN 100
        ELSE IF {pr[1], pr[2]} = {"node02", "xyji"} THEN 20
        ELSE 25]

\* bw_map.get(&(node, "xyji")).unwrap()
bw_to_storage(n) == hard_coded_network_bandwidth_map[<<n, STORAGE_NODE>>]

(***************************************************************************)
(* Helpers: Vec::sort_by on the second component (a stable sort).          *)
(***************************************************************************)
SetMin(S) == CHOOSE x \in S : \A y \in S : x <= y

\* The stable sort: element i goes to the place given by the number of
\* elements with a smaller key, or with the same key and before it.
\* (A value bound by \in, here t, is computed once where it is bound.)
SortBySecond(s) ==
    LET sorted(t) ==
            LET n == Len(t)
                rank(i) ==
                    Cardinality({j \in 1..n :
                        \/ t[j][2] < t[i][2]
                        \/ t[j][2] = t[i][2] /\ j < i}) + 1
            IN SubSeq([k \in 1..n |-> t[CHOOSE i \in 1..n : rank(i) = k]], 1, n)
    IN CHOOSE r \in {sorted(t) : t \in {SubSeq(s, 1, Len(s))}} : TRUE

\* all_bws: every node of the cluster with its bandwidth to the storage
\* node, ascending by bandwidth.
all_bws ==
    SortBySecond([i \in 1..Len(node_list) |->
                     <<node_list[i], bw_to_storage(node_list[i])>>])

nr_node == Len(node_list)

\* The index (0-based) of a node in all_bws; 0 when it is not found.
index_in_all_bws(n) ==
    LET hit == {i \in 1..Len(all_bws) : all_bws[i][1] = n}
    IN IF hit = {} THEN 0 ELSE SetMin(hit) - 1

\* A candidate list in the order of node_list (the predicate's order).
RECURSIVE SeqOfCands(_, _)
SeqOfCands(cands, i) ==
    IF i > Len(node_list) THEN <<>>
    ELSE (IF node_list[i] \in cands THEN <<node_list[i]>> ELSE <<>>)
         \o SeqOfCands(cands, i + 1)

\* node_with_index: the candidates with their index in all_bws, sorted by it.
node_with_index(cands) ==
    LET cs == SeqOfCands(cands, 1)
    IN SortBySecond([i \in 1..Len(cs) |-> <<cs[i], index_in_all_bws(cs[i])>>])

\* choice.get(&uuid), 0 when absent
this_choice(choice, uuid) ==
    IF uuid \in DOMAIN choice THEN choice[uuid] ELSE 0

\* choice.get(&uuid) as an Option: <<>> for None, <<c>> for Some(c)
choice_get(choice, uuid) ==
    IF uuid \in DOMAIN choice THEN <<choice[uuid]>> ELSE <<>>

\* one cursor shared by every group
update_choice_shared(choice, uuid, c) ==
    [u \in DOMAIN choice \cup {uuid} |-> c]

\* choice updated (get_mut / insert)
update_choice(choice, uuid, c) ==
    [u \in DOMAIN choice \cup {uuid} |-> IF u = uuid THEN c ELSE choice[u]]

(***************************************************************************)
(* The round-robin part of both priorities: a record [m, choice] of the    *)
(* score map and of the cursor map after the call.                         *)
(***************************************************************************)
\* round_robin with the cursor advanced without the wrap at nr_node
round_robin_no_wrap(cands, uuid, choice) ==
    LET m0 == [n \in cands |-> 0]
        c == this_choice(choice, uuid)
        decide(nwi) ==
            LET found == {i \in 0..(Len(nwi) - 1) : i >= c}
            IN IF found # {}
               THEN LET i == SetMin(found)
                    IN [m |-> [m0 EXCEPT ![nwi[i + 1][1]] = 100],
                        choice |-> update_choice(choice, uuid, i + 1)]
               ELSE LET node == nwi[Len(nwi)]
                    IN [m |-> [m0 EXCEPT ![node[1]] = 100],
                        choice |-> update_choice(choice, uuid, node[2] + 1)]
    IN CHOOSE r \in {decide(nwi) : nwi \in {node_with_index(cands)}} : TRUE

round_robin(cands, uuid, choice) ==
    LET m0 == [n \in cands |-> 0]
        c == this_choice(choice, uuid)
        decide(nwi) ==
            \* the first position i of the enumeration with i >= c
            LET found == {i \in 0..(Len(nwi) - 1) : i >= c}
            IN IF found # {}
               THEN LET i == SetMin(found)
                    IN [m |-> [m0 EXCEPT ![nwi[i + 1][1]] = 100],
                        choice |-> update_choice(choice, uuid, (i + 1) % nr_node)]
               ELSE LET node == nwi[Len(nwi)]
                    IN [m |-> [m0 EXCEPT ![node[1]] = 100],
                        choice |-> update_choice(choice, uuid, (node[2] + 1) % nr_node)]
    IN CHOOSE r \in {decide(nwi) : nwi \in {node_with_index(cands)}} : TRUE

NetworkAwarePriority(cands, uuid, wtype, choice) ==
    round_robin(cands, uuid, choice)

\* the compute path without its return: the round robin runs after it
WorkloadNetworkAwarePriority_no_return(cands, uuid, wtype, choice) ==
    LET hit == {i \in 1..Len(all_bws) : all_bws[i][1] \in cands}
        rr == round_robin(cands, uuid, choice)
    IN IF wtype = DEFAULT_COMPUTE_WORKLOAD /\ hit # {}
       THEN [m |-> [n \in cands |->
                       IF n = all_bws[SetMin(hit)][1] THEN 100 ELSE rr.m[n]],
             choice |-> rr.choice]
       ELSE rr

WorkloadNetworkAwarePriority(cands, uuid, wtype, choice) ==
    LET hit == {i \in 1..Len(all_bws) : all_bws[i][1] \in cands}
    IN IF wtype = DEFAULT_COMPUTE_WORKLOAD /\ hit # {}
       THEN [m |-> [n \in cands |->
                       IF n = all_bws[SetMin(hit)][1] THEN 100 ELSE 0],
             choice |-> choice]
       ELSE round_robin(cands, uuid, choice)

\* a dispatch that calls the priority that does not read the workload type
prioritize_ignoring_workload(strategy, cands, uuid, wtype, choice) ==
    NetworkAwarePriority(cands, uuid, wtype, choice)

\* Scheduler::prioritize: the dispatch to the priority the scheduler holds.
prioritize(strategy, cands, uuid, wtype, choice) ==
    IF strategy = "WorkloadNetworkAware"
    THEN WorkloadNetworkAwarePriority(cands, uuid, wtype, choice)
    ELSE NetworkAwarePriority(cands, uuid, wtype, choice)

(***************************************************************************)
(* The pods.  A pod is named by a number; its labels and its resource      *)
(* request are those the submitter stamped on it: every pod of a group     *)
(* carries the group's uuid and workload type.                             *)
(***************************************************************************)
Pods == 1..MaxPods
Groups == {"g1", "g2", "g3"}
group_workload_type(g) == IF g = "g2" THEN "compute" ELSE "storage"

\* get_pod_uuid: pod.metadata.labels["spark-uuid"]
get_pod_uuid(p) == IF p % 3 = 0 THEN "g2" ELSE "g1"
\* get_pod_workload_type: pod.metadata.labels["spark-workload-type"]
get_pod_workload_type(p) == group_workload_type(get_pod_uuid(p))

EmptyMap == <<>>

\* pod_resource: the request of the pod's first container, parsed.
pod_resource(p) == [cpu |-> IF p % 2 = 0 THEN 2 ELSE 1, mem_kb |-> 1024]

\* status.allocatable of a node: cpu in cores, memory in Ki.  The values
\* are large enough for the subtractions of renew_resource_map not to
\* underflow.
node_allocatable(n) ==
    [cpu |-> IF n = "node1" THEN 3 ELSE IF n = DEFAULT_MASTER_NODE_NAME THEN 4 ELSE 2,
     mem_kb |-> 6291456]

\* renew_resource_map: the entry inserted for node n.
renewed_node_resource(n) ==
    LET a == node_allocatable(n)
        cpu == IF n = DEFAULT_MASTER_NODE_NAME THEN a.cpu - 2 ELSE a.cpu
    IN [cpu |-> cpu - 1, mem_kb |-> a.mem_kb - 5 * 1024 * 1024]

renew_resource_map == [n \in Nodes |-> renewed_node_resource(n)]

\* Predicate::judge: the nodes whose remaining resources meet the request.
judge(remaining, req) ==
    {n \in DOMAIN remaining :
        remaining[n].cpu >= req.cpu /\ remaining[n].mem_kb >= req.mem_kb}

\* find_best_node with the comparison turned round: the lowest score wins
find_best_node_lowest(priorities) ==
    {n \in DOMAIN priorities : \A k \in DOMAIN priorities : priorities[n] <= priorities[k]}

\* Scheduler::find_best_node: the results the iteration over the score map
\* (a HashMap, in no fixed order) can produce.
find_best_node(priorities) ==
    LET pos == {n \in DOMAIN priorities : priorities[n] > 0}
    IN IF pos = {} THEN {""}
       ELSE {n \in pos : \A k \in pos : priorities[k] <= priorities[n]}

\* Scheduler::update_sched_hist
update_sched_hist(hist, uuid, node_name) ==
    IF uuid \in DOMAIN hist
    THEN LET alloc_hist == hist[uuid]
             seen == {i \in 1..Len(alloc_hist) : alloc_hist[i].node_name = node_name}
         IN IF seen # {}
            THEN [hist EXCEPT ![uuid][SetMin(seen)].nr = @ + 1]
            ELSE [hist EXCEPT ![uuid] = Append(@, [node_name |-> node_name, nr |-> 1])]
    ELSE [u \in DOMAIN hist \cup {uuid} |->
             IF u = uuid THEN <<[node_name |-> node_name, nr |-> 1]>> ELSE hist[u]]

VARIABLES
    prio,           \* the priority strategy the scheduler was built with
    next_choice,    \* Scheduler.next_choice: uuid -> cursor
    calls,          \* history: priority calls per group since the cursors were cleared
    all_full,       \* history: every such call of the group saw all nodes
    last_call,      \* history: the last priority call
    cluster,        \* the orchestrator: each pod uncreated, pending, on a node, or deleted
    queue,          \* the pod queue (unbounded_channel)
    tasks,          \* per pod: the task Scheduler::run spawned for it
    node_resource_map,   \* Scheduler.node_resource_map
    nrm_owner,      \* the pod whose task holds the node_resource_map mutex, 0 when free
    prev_sched,     \* Scheduler.prev_sched: uuid -> Vec<Alloc>
    prev_sched_readers,  \* the tasks holding a read guard of prev_sched
    next_choice_writer,  \* the task holding the write guard of next_choice, 0 when free
    rpc,            \* where the renewal task is
    pod_list,       \* the orchestrator: the pods get_allocated_resources lists
    judged,         \* history: the last call of EnoughResourcePredicate::judge
    plan_call,      \* the submitter: the planner called and its arguments
    plan_pc,        \* the submitter: where Planner::plan is
    cluster_state,  \* ClusterState: total_core and total_mem_mb
    plans,          \* the Vec<ResourcePlan> being built
    core_gap,       \* WorkloadAwareFairPlanner: core_gap, index -> gap
    core_gap0,      \* history: core_gap as the storage pass left it
    alloc,          \* history: c_core, s_core and the core of each workload
    gap_todo,       \* the keys of core_gap the rebalance has not iterated yet
    gap_idx,        \* the key of core_gap the rebalance is at, 0 when at none
    ptr,            \* the rebalance cursor
    steals,         \* history: the executors the rebalance has moved
    bind_call,      \* history: the last answer to a binding request and the result
    submit_call,    \* the submitter: the arguments of sched
    submit_pc,      \* the submitter: where sched is
    cmds,           \* the submitter: cmds, the argv of each workload's command
    childs,         \* the submitter: childs, the workloads spawned, in order
    spawn_i,        \* the submitter: the index of the spawn loop it is in
    exited,         \* the submitter: the workloads whose wait task is done
    cleaned,        \* history: cleanup has run
    snapshot        \* history: the last get_cluster_state and its ClusterState

prio_vars == <<prio, next_choice, calls, all_full, last_call>>
sched_vars == <<cluster, queue, tasks, node_resource_map, nrm_owner,
                prev_sched, prev_sched_readers, next_choice_writer, rpc>>
pred_vars == <<pod_list, judged>>
vars == <<prio, next_choice, calls, all_full, last_call, cluster,
          queue, tasks, node_resource_map, nrm_owner, prev_sched,
          prev_sched_readers, next_choice_writer, rpc, pod_list, judged,
          plan_call, plan_pc, cluster_state, plans, core_gap, core_gap0,
          alloc, gap_todo, gap_idx, ptr, steals, bind_call, submit_call,
          submit_pc, cmds, childs, spawn_i, exited, cleaned, snapshot>>
cluster_vars == <<snapshot>>
ops_vars == <<bind_call>>
submit_vars == <<submit_call, submit_pc, cmds, childs, spawn_i, exited, cleaned>>
plan_vars == <<plan_call, plan_pc, cluster_state, plans, core_gap, core_gap0,
               alloc, gap_todo, gap_idx, ptr, steals>>
rebalance_vars == <<core_gap, core_gap0, gap_todo, gap_idx, ptr, steals>>

NoCall ==
    [valid |-> FALSE, uuid |-> "", wtype |-> "", cands |-> {},
     before |-> EmptyMap, m |-> EmptyMap, after |-> EmptyMap]

RECURSIVE SumOver(_, _)
SumOver(f, S) ==
    IF S = {} THEN 0
    ELSE LET x == CHOOSE y \in S : TRUE IN f[x] + SumOver(f, S \ {x})

SCHEDULER_NAME == "spark-sched"
SPARK_NAMESPACE == "spark"

\* pod.metadata.name and pod.metadata.namespace of the pods the watcher
\* sends: the pods of the scheduler's namespace.
PodNames == <<"spark-pi-driver", "spark-pi-exec-1", "spark-pi-exec-2">>
pod_name_of(p) == PodNames[p]
pod_namespace_of(p) == SPARK_NAMESPACE

\* No event: the task has not called emit_event.
NoEvent ==
    [count |-> 0, message |-> "", reason |-> "", type_ |-> "",
     source |-> [component |-> ""],
     involved_object |-> [kind |-> "", name |-> "", namespace |-> ""],
     metadata |-> [generate_name |-> ""]]

\* A pod the scheduler has not seen: no task.  A task is at pc "queued"
\* while its pod is in the queue, at "start" once spawned.  bound_at is
\* history: the rank of the task's successful bind among the successful
\* binds, 0 when it has none.  c_before is history: while the bind is
\* awaited, choice.get(&uuid) as it was when prioritize was called (<<>>
\* for None).
NoTask ==
    [pod |-> 0, pc |-> "none", cands |-> {}, m |-> EmptyMap, best |-> "",
     c_before |-> <<>>,
     bind_ok |-> FALSE, bound_at |-> 0, ret |-> "none",
     event |-> NoEvent, event_result |-> "none"]

\* Scheduler::new, before run: the maps are empty, the resource map renewed.
SchedInit ==
    /\ cluster = [p \in Pods |-> "uncreated"]
    /\ queue = <<>>
    /\ tasks = [p \in Pods |-> NoTask]
    /\ node_resource_map = renew_resource_map
    /\ nrm_owner = 0
    /\ prev_sched = EmptyMap
    /\ prev_sched_readers = {}
    /\ next_choice_writer = 0
    /\ rpc = "list"

PrioInit ==
    /\ prio \in {"NetworkAware", "WorkloadNetworkAware"}
    /\ next_choice = EmptyMap
    /\ calls = [g \in Groups |-> 0]
    /\ all_full = [g \in Groups |-> TRUE]
    /\ last_call = NoCall

\* A listed pod: the node it is bound to ("" when unbound) and the cpu and
\* memory requests of its container (NoQuantity when the key is absent).
NoQuantity == [val |-> 0, unit |-> "none"]

NoPod == [listed |-> FALSE, node_name |-> "", cpu |-> NoQuantity, memory |-> NoQuantity]

NoJudge ==
    [valid |-> FALSE, pod_resource |-> [millicore |-> 0, mem_kb |-> 0],
     pod_list |-> <<>>, node_names |-> {}]

\* The orchestrator lists no pod yet and judge has not been called.
PredInit ==
    /\ pod_list = [i \in 1..MaxBound |-> NoPod]
    /\ judged = NoJudge

NoPlanCall ==
    [planner |-> "none", workload_types |-> <<>>, meta |-> <<>>,
     total_core |-> 0, total_mem_mb |-> 0, overflow_checks |-> FALSE]

\* The submitter before it calls a planner.
PlanInit ==
    /\ plan_call = NoPlanCall
    /\ plan_pc = "idle"
    /\ cluster_state = [total_core |-> 0, total_mem_mb |-> 0]
    /\ plans = <<>>
    /\ core_gap = EmptyMap
    /\ core_gap0 = EmptyMap
    /\ alloc = [c_core |-> 0, s_core |-> 0, cores |-> <<>>]
    /\ gap_todo = {}
    /\ gap_idx = 0
    /\ ptr = 0
    /\ steals = 0

\* No binding request has been answered.
NoBindCall == [valid |-> FALSE, error |-> FALSE, code |-> <<>>, result |-> ""]

OpsInit == bind_call = NoBindCall

\* The submitter before sched is called.
NoSubmitCall ==
    [tags |-> <<>>, nexec |-> 0, n_plans |-> 0, scheduler_name |-> "",
     no_run |-> FALSE, no_exit |-> FALSE]

SubmitInit ==
    /\ submit_call = NoSubmitCall
    /\ submit_pc = "idle"
    /\ cmds = <<>>
    /\ childs = <<>>
    /\ spawn_i = 0
    /\ exited = {}
    /\ cleaned = FALSE

\* get_cluster_state has not been called.
NoSnapshot ==
    [valid |-> FALSE, nr_node |-> 0, overflow_checks |-> FALSE,
     reserved_core |-> 0, total_core |-> 0, total_mem_mb |-> 0,
     panicked |-> FALSE]

ClusterInit == snapshot = NoSnapshot

Init ==
    /\ PrioInit /\ SchedInit /\ PredInit /\ PlanInit /\ OpsInit /\ SubmitInit
    /\ ClusterInit

(***************************************************************************)
(* SpecPrio: the priority function alone, called with any candidates.      *)
(***************************************************************************)
\* One call of Priority::priority for a pod of group g with candidates cands.
PrioCall(g, cands) ==
    LET r == prioritize(prio, cands, g, group_workload_type(g), next_choice)
    IN /\ SumOver(calls, Groups) < MaxCalls
       /\ next_choice' = r.choice
       /\ calls' = [calls EXCEPT ![g] = @ + 1]
       /\ all_full' = [all_full EXCEPT ![g] = @ /\ cands = Nodes]
       /\ last_call' = [valid |-> TRUE, uuid |-> g,
                        wtype |-> group_workload_type(g), cands |-> cands,
                        before |-> next_choice, m |-> r.m, after |-> r.choice]
       /\ UNCHANGED <<cluster_vars, ops_vars, submit_vars, pred_vars, plan_vars, prio, sched_vars>>

\* The renewal task clears the cursor map.
PrioClear ==
    /\ next_choice' = EmptyMap
    /\ calls' = [g \in Groups |-> 0]
    /\ all_full' = [g \in Groups |-> TRUE]
    /\ last_call' = NoCall
    /\ UNCHANGED <<cluster_vars, ops_vars, submit_vars, pred_vars, plan_vars, prio, sched_vars>>

PrioNext ==
    \/ \E g \in Groups : \E cands \in (SUBSET Nodes) \ {{}} : PrioCall(g, cands)
    \/ PrioClear

SpecPrio == Init /\ [][PrioNext]_vars

(***************************************************************************)
(* The claims about the priority function, under SpecPrio.                 *)
(***************************************************************************)
\* The candidates with the greatest bandwidth to the storage node.
greatest_bw(cands) ==
    {n \in cands : \A k \in cands : bw_to_storage(k) <= bw_to_storage(n)}

\* The candidate scored 100 by the last call (the call scores one).
scored_100(m) == {n \in DOMAIN m : m[n] = 100}

\* C1: a compute pod's priority call (WorkloadNetworkAwarePriority) scores
\* 100 on the candidate with the greatest bandwidth to the storage node and
\* 0 on every other candidate.
C1_ComputePinning ==
    (last_call.valid /\ prio = "WorkloadNetworkAware"
        /\ last_call.wtype = DEFAULT_COMPUTE_WORKLOAD)
    => \A n \in last_call.cands :
          last_call.m[n] = IF n \in greatest_bw(last_call.cands) THEN 100 ELSE 0

\* C2: after a priority call on the storage path for a pod of group g, with
\* any candidate set and any prior cursor, the cursor of g is
\* (chosen_index + 1) mod |all nodes|, chosen_index the index in all_bws of
\* the node scored 100.
C2_CursorUpdate ==
    (last_call.valid /\ last_call.wtype # DEFAULT_COMPUTE_WORKLOAD)
    => /\ last_call.uuid \in DOMAIN last_call.after
       /\ \A n \in scored_100(last_call.m) :
             last_call.after[last_call.uuid] = (index_in_all_bws(n) + 1) % nr_node

\* C3: when every call for a storage group g since its cursor was absent saw
\* all nodes as candidates, the k-th call scores 100 on
\* all_bws[(k-1) mod n] only and leaves the cursor at k mod n; with three
\* nodes the ascending order is node1, node02, node03.
C3_RoundRobin ==
    /\ NrNode = 3 =>
          [i \in 1..Len(all_bws) |-> all_bws[i][1]] = <<"node1", "node02", "node03">>
    /\ \A g \in Groups :
          (group_workload_type(g) # DEFAULT_COMPUTE_WORKLOAD
              /\ all_full[g] /\ calls[g] >= 1)
          => /\ g \in DOMAIN next_choice
             /\ next_choice[g] = calls[g] % nr_node
             /\ (last_call.valid /\ last_call.uuid = g)
                => last_call.m =
                      [n \in Nodes |->
                          IF n = all_bws[((calls[g] - 1) % nr_node) + 1][1]
                          THEN 100 ELSE 0]

\* C3's case: a storage group called more often than there are nodes, always
\* with all nodes as candidates, so that the cursor has wrapped around.
C3_Witness ==
    /\ all_full["g1"]
    /\ calls["g1"] > nr_node
    /\ last_call.valid /\ last_call.uuid = "g1"

(***************************************************************************)
(* Spec: the scheduler.  The environment creates and deletes pods; the     *)
(* watcher queues unbound pods; Scheduler::run spawns one task per         *)
(* dequeued pod; the renewal task runs beside them.                        *)
(***************************************************************************)
\* The tasks that sched_pod is running or has run.
TaskIds == {p \in Pods : tasks[p].pc \notin {"none", "queued"}}

\* The pods the orchestrator lists in the namespace.
namespace_pods == {p \in Pods : cluster[p] \notin {"uncreated", "deleted"}}

\* the emptiness test negated
some_pod == namespace_pods # {}

\* renew_resource_map_if_no_pod: pods.is_empty()
no_pod == namespace_pods = {}

\* a mutex that never makes a task wait
lock_always_free == TRUE

\* the node_resource_map mutex can be taken
node_resource_map_lock_free == nrm_owner = 0

\* a write guard that never makes a task wait
write_guard_always_free == TRUE

\* the write guard of next_choice can be taken
next_choice_write_free == next_choice_writer = 0

\* a MutexGuard that outlives eval_and_bind
guard_kept(t) == t

\* eval_and_bind returns: its MutexGuard goes out of scope, the mutex is free
guard_dropped(t) == 0

\* The submitter's job creates a pod with this scheduler's name.
CreatePod(p) ==
    /\ cluster[p] = "uncreated"
    /\ cluster' = [cluster EXCEPT ![p] = "pending"]
    /\ UNCHANGED <<cluster_vars, ops_vars, submit_vars, pred_vars, plan_vars, prio_vars, queue, tasks, node_resource_map,
                   nrm_owner, prev_sched, prev_sched_readers,
                   next_choice_writer, rpc>>

\* The pod ends or is deleted (kubectl delete pods --all).
DeletePod(p) ==
    /\ p \in namespace_pods
    /\ cluster' = [cluster EXCEPT ![p] = "deleted"]
    /\ UNCHANGED <<cluster_vars, ops_vars, submit_vars, pred_vars, plan_vars, prio_vars, queue, tasks, node_resource_map,
                   nrm_owner, prev_sched, prev_sched_readers,
                   next_choice_writer, rpc>>

\* start_pod_watcher: an applied pod without a node is sent to the queue
\* (once: the pod is applied when it is created and not changed after).
Watch(p) ==
    /\ cluster[p] = "pending"
    /\ tasks[p].pc = "none"
    /\ tasks' = [tasks EXCEPT ![p].pod = p, ![p].pc = "queued"]
    /\ queue' = Append(queue, p)
    /\ UNCHANGED <<cluster_vars, ops_vars, submit_vars, pred_vars, plan_vars, prio_vars, cluster, node_resource_map, nrm_owner,
                   prev_sched, prev_sched_readers, next_choice_writer, rpc>>

\* The tasks whose sched_pod failed: no node fitted (it returned false), or
\* the priority gave no best node or the bind was refused (bind_ok FALSE).
failed_attempts ==
    {p \in Pods : \/ tasks[p].ret = "false"
                  \/ tasks[p].pc \in {"hist", "emit", "done"} /\ ~tasks[p].bind_ok}

\* a run loop that ends with the first failed attempt
recv_until_failure == queue # <<>> /\ failed_attempts = {}

\* Scheduler::run: rx.recv() yields a pod whenever the queue holds one,
\* whatever the spawned tasks returned.
recv_ready == queue # <<>>

\* Scheduler::run: one iteration of the loop, rx.recv() and tokio::spawn.
Spawn ==
    /\ recv_ready
    /\ tasks' = [tasks EXCEPT ![Head(queue)].pc = "start"]
    /\ queue' = Tail(queue)
    /\ UNCHANGED <<cluster_vars, ops_vars, submit_vars, pred_vars, plan_vars, prio_vars, cluster, node_resource_map, nrm_owner,
                   prev_sched, prev_sched_readers, next_choice_writer, rpc>>

\* a sched_pod that reports success although eval_and_bind returned Err
sched_pod_ignoring_err == "true"

\* sched_pod's value when eval_and_bind returned Err: the error is printed,
\* then false.
sched_pod_on_err == "false"

\* eval_and_bind, first part: lock node_resource_map and judge.  With no
\* fitting node it returns Err and sched_pod returns false.
EvalFilter(t) ==
    LET filtered_node_names == judge(node_resource_map, pod_resource(tasks[t].pod))
    IN /\ tasks[t].pc = "start"
       /\ node_resource_map_lock_free
       /\ IF filtered_node_names = {}
          THEN /\ tasks' = [tasks EXCEPT ![t].pc = "done",
                                         ![t].ret = sched_pod_on_err]
               /\ nrm_owner' = guard_dropped(t)
          ELSE /\ tasks' = [tasks EXCEPT ![t].pc = "filtered",
                                         ![t].cands = filtered_node_names]
               /\ nrm_owner' = t
       /\ UNCHANGED <<cluster_vars, ops_vars, submit_vars, pred_vars, plan_vars, prio_vars, cluster, queue, node_resource_map,
                      prev_sched, prev_sched_readers, next_choice_writer, rpc>>

\* eval_and_bind, second part: the read guard of prev_sched is taken (no
\* writer keeps its guard across an await: update_sched_hist and the renewal
\* write and drop it at once).
EvalReadHist(t) ==
    /\ tasks[t].pc = "filtered"
    /\ tasks' = [tasks EXCEPT ![t].pc = "reading"]
    /\ prev_sched_readers' = prev_sched_readers \cup {t}
    /\ UNCHANGED <<cluster_vars, ops_vars, submit_vars, pred_vars, plan_vars, prio_vars, cluster, queue, node_resource_map,
                   nrm_owner, prev_sched, next_choice_writer, rpc>>

\* eval_and_bind, third part: write guard of next_choice, prioritize and
\* find_best_node.
EvalPrioritize(t) ==
    /\ tasks[t].pc = "reading"
    /\ next_choice_write_free
    /\ \E priorities \in {prioritize(prio, tasks[t].cands,
                                     get_pod_uuid(tasks[t].pod),
                                     get_pod_workload_type(tasks[t].pod),
                                     next_choice)} :
          /\ \E best_node \in find_best_node(priorities.m) :
                tasks' = [tasks EXCEPT ![t].pc = "bind", ![t].m = priorities.m,
                                       ![t].best = best_node,
                                       ![t].c_before =
                                           choice_get(next_choice,
                                                      get_pod_uuid(tasks[t].pod))]
          /\ next_choice' = priorities.choice
    /\ next_choice_writer' = t
    /\ UNCHANGED <<cluster_vars, ops_vars, submit_vars, pred_vars, plan_vars, prio, calls, all_full, last_call, cluster,
                   queue, node_resource_map, nrm_owner, prev_sched,
                   prev_sched_readers, rpc>>

\* eval_and_bind, last part: bind_pod_to_node answers; on Ok the node's
\* resources are decremented; the guards are dropped and Ok(best_node) is
\* returned either way.
Bind(t, ok) ==
    LET p == tasks[t].pod
        best_node == tasks[t].best
        pod_res == pod_resource(p)
        nr_bound == Cardinality({q \in Pods : tasks[q].bound_at > 0})
    IN /\ tasks[t].pc = "bind"
       /\ ok => cluster[p] = "pending" /\ best_node \in Nodes
       /\ IF ok
          THEN /\ cluster' = [cluster EXCEPT ![p] = best_node]
               /\ node_resource_map' =
                     [node_resource_map EXCEPT
                         ![best_node].cpu = @ - pod_res.cpu,
                         ![best_node].mem_kb = @ - pod_res.mem_kb]
          ELSE UNCHANGED <<cluster, node_resource_map>>
       /\ tasks' = [tasks EXCEPT ![t].pc = "hist", ![t].bind_ok = ok,
                                 ![t].bound_at =
                                     IF ok THEN nr_bound + 1 ELSE 0,
                                 ![t].cands = {}, ![t].m = EmptyMap,
                                 ![t].c_before = <<>>]
       /\ nrm_owner' = guard_dropped(t)
       /\ prev_sched_readers' = prev_sched_readers \ {t}
       /\ next_choice_writer' = 0
       /\ UNCHANGED <<cluster_vars, ops_vars, submit_vars, pred_vars, plan_vars, prio_vars, queue, prev_sched, rpc>>

\* sched_pod after eval_and_bind returned Ok: update_sched_hist.
UpdateSchedHist(t) ==
    /\ tasks[t].pc = "hist"
    /\ prev_sched_readers = {}
    /\ prev_sched' = update_sched_hist(prev_sched, get_pod_uuid(tasks[t].pod),
                                       tasks[t].best)
    /\ tasks' = [tasks EXCEPT ![t].pc = "emit"]
    /\ UNCHANGED <<cluster_vars, ops_vars, submit_vars, pred_vars, plan_vars, prio_vars, cluster, queue, node_resource_map,
                   nrm_owner, prev_sched_readers, next_choice_writer, rpc>>

\* sched_pod: format!("Placed pod [{}/{}] on {}\n", ...)
placed_message(pod_namespace, pod_name, node_name) ==
    "Placed pod [" \o pod_namespace \o "/" \o pod_name \o "] on "
        \o node_name \o "\n"

\* a generate_name without the dash
generate_name_bare(pod_name) == pod_name

\* format!("{}-", &pod_name)
generate_name(pod_name) == pod_name \o "-"

\* Scheduler::emit_event: the Event built from the parameters (the
\* timestamps left out), and the result of its creation, which the
\* orchestrator accepts (created TRUE) or not.
emit_event(pod_name, pod_ns, scheduler_name, message, created) ==
    [event |->
        [count |-> 1, message |-> message, reason |-> "Scheduled",
         type_ |-> "Normal",
         source |-> [component |-> scheduler_name],
         involved_object |-> [kind |-> "Pod", name |-> pod_name,
                              namespace |-> pod_ns],
         metadata |-> [generate_name |-> generate_name(pod_name)]],
     result |-> IF created THEN "Ok" ELSE "Err"]

\* a sched_pod that fails when the event does
sched_pod_if_event(event_result) ==
    IF event_result = "Ok" THEN "true" ELSE "false"

\* sched_pod's value after emit_event: the error is printed, then true.
sched_pod_after_event(event_result) == "true"

\* sched_pod: emit_event answers, Ok or Err; sched_pod returns true.
EmitEvent(t, ok) ==
    /\ tasks[t].pc = "emit"
    /\ \E r \in {emit_event(pod_name_of(tasks[t].pod),
                             pod_namespace_of(tasks[t].pod), SCHEDULER_NAME,
                             placed_message(pod_namespace_of(tasks[t].pod),
                                            pod_name_of(tasks[t].pod),
                                            tasks[t].best),
                             ok)} :
          tasks' = [tasks EXCEPT ![t].pc = "done",
                                 ![t].event = r.event,
                                 ![t].event_result = r.result,
                                 ![t].ret = sched_pod_after_event(r.result)]
    /\ UNCHANGED <<cluster_vars, ops_vars, submit_vars, pred_vars, plan_vars, prio_vars, cluster, queue, node_resource_map,
                   nrm_owner, prev_sched, prev_sched_readers,
                   next_choice_writer, rpc>>

\* renew_resource_map_if_no_pod: the pods of the namespace are listed.
RenewList ==
    /\ rpc = "list"
    /\ rpc' = IF no_pod THEN "snapshot" ELSE "list"
    /\ UNCHANGED <<cluster_vars, ops_vars, submit_vars, pred_vars, plan_vars, prio_vars, cluster, queue, tasks,
                   node_resource_map, nrm_owner, prev_sched,
                   prev_sched_readers, next_choice_writer>>

\* renew_resource_map: the mutex is taken and every node's entry rewritten.
RenewSnapshot ==
    /\ rpc = "snapshot"
    /\ node_resource_map_lock_free
    /\ node_resource_map' = renew_resource_map
    /\ rpc' = "clear_hist"
    /\ UNCHANGED <<cluster_vars, ops_vars, submit_vars, pred_vars, plan_vars, prio_vars, cluster, queue, tasks, nrm_owner,
                   prev_sched, prev_sched_readers, next_choice_writer>>

\* self.prev_sched.write().await.clear()
RenewClearHist ==
    /\ rpc = "clear_hist"
    /\ prev_sched_readers = {}
    /\ prev_sched' = EmptyMap
    /\ rpc' = "clear_choice"
    /\ UNCHANGED <<cluster_vars, ops_vars, submit_vars, pred_vars, plan_vars, prio_vars, cluster, queue, tasks,
                   node_resource_map, nrm_owner, prev_sched_readers,
                   next_choice_writer>>

\* self.next_choice.write().await.clear(); then the task sleeps a second.
RenewClearChoice ==
    /\ rpc = "clear_choice"
    /\ next_choice_write_free
    /\ next_choice' = EmptyMap
    /\ rpc' = "list"
    /\ UNCHANGED <<cluster_vars, ops_vars, submit_vars, pred_vars, plan_vars, prio, calls, all_full, last_call, cluster, queue,
                   tasks, node_resource_map, nrm_owner, prev_sched,
                   prev_sched_readers, next_choice_writer>>

TaskStep(t) ==
    \/ EvalFilter(t)
    \/ EvalReadHist(t)
    \/ EvalPrioritize(t)
    \/ \E ok \in BOOLEAN : Bind(t, ok)
    \/ UpdateSchedHist(t)
    \/ \E ok \in BOOLEAN : EmitEvent(t, ok)

RenewStep ==
    \/ RenewList
    \/ RenewSnapshot
    \/ RenewClearHist
    \/ RenewClearChoice

Next ==
    \/ \E p \in Pods : CreatePod(p)
    \/ \E p \in Pods : DeletePod(p)
    \/ \E p \in Pods : Watch(p)
    \/ Spawn
    \/ \E t \in TaskIds : TaskStep(t)
    \/ RenewStep

Spec == Init /\ [][Next]_vars

\* The runtime runs every spawned task and the run loop, the orchestrator
\* answers every request, and the renewal task wakes up every second.
FairSpec ==
    /\ Init /\ [][Next]_vars
    /\ WF_vars(Spawn)
    /\ \A p \in Pods : WF_vars(TaskStep(p))
    /\ WF_vars(RenewStep)

(***************************************************************************)
(* The claims about the scheduler, under Spec and FairSpec.                *)
(***************************************************************************)
\* The pods whose sched_pod has started and not returned.
in_flight ==
    {p \in Pods : tasks[p].pc \in {"start", "filtered", "reading", "bind", "hist", "emit"}}

\* The pods whose task is inside eval_and_bind with the mutex held.
in_critical_section == {p \in Pods : tasks[p].pc \in {"filtered", "reading", "bind"}}

\* C4: when the schedule attempt of a dequeued pod ends in failure (no node
\* fits, or the bind failed), the pod is put back at the tail of the queue.
C4_RequeueOnFailure ==
    [][\A p \in Pods :
          (tasks[p].pc # "done" /\ tasks'[p].pc = "done"
              /\ (tasks'[p].ret = "false" \/ ~tasks'[p].bind_ok))
          => queue' = Append(queue, p)]_vars

\* C5: the history of the pod's group is updated, the event emitted and
\* success reported only if the bind of that attempt succeeded.
C5_PostBindOnlyOnSuccess ==
    \A p \in Pods :
       (tasks[p].pc = "emit" \/ tasks[p].ret = "true") => tasks[p].bind_ok

\* C6 as stated: at most one sched_pod (from the predicate to the event) is
\* in flight at any time.
C6_OneScheduleInFlight == Cardinality(in_flight) <= 1

\* C6 amended: at most one task is inside eval_and_bind's locked section
\* (from the predicate to the bind's answer), and it holds the mutex; other
\* sched_pod tasks may be in flight before or after that section.
C6_OneDecisionInFlight ==
    /\ Cardinality(in_critical_section) <= 1
    /\ \A p \in in_critical_section : nrm_owner = p

\* C6's case: one task inside the locked section while another pod's
\* sched_pod is in flight, waiting for the mutex or past eval_and_bind.
C6_Witness ==
    \E p, q \in Pods :
       /\ p # q
       /\ tasks[p].pc = "bind"
       /\ tasks[q].pc \in {"start", "hist", "emit"}

\* C7: in every attempt that issues a bind, the target is one of the nodes
\* the predicate returned for that pod in that attempt (never an empty
\* name), and no candidate has a higher score.
C7_BindTargetAdmitted ==
    \A p \in Pods :
       tasks[p].pc = "bind"
       => /\ tasks[p].cands = judge(node_resource_map, pod_resource(p))
          /\ tasks[p].best \in tasks[p].cands
          /\ tasks[p].best # ""
          /\ \A n \in tasks[p].cands : tasks[p].m[n] <= tasks[p].m[tasks[p].best]

\* C7's case: a bind is being issued for a pod with several candidates.
C7_Witness ==
    \E p \in Pods : tasks[p].pc = "bind" /\ Cardinality(tasks[p].cands) >= 2

\* C9: while a sched_pod is in flight the renewal task changes nothing: it
\* takes none of its steps that re-snapshot the node resource map or clear
\* the history or the cursor map.
C9_RenewalNoOpInFlight ==
    [][(in_flight # {} /\ rpc \in {"snapshot", "clear_hist", "clear_choice"})
          => rpc' = rpc]_vars

\* The renewal has taken effect: cursor map and history empty, the node
\* resource map as renew_resource_map writes it.
renewed ==
    /\ next_choice = EmptyMap
    /\ prev_sched = EmptyMap
    /\ node_resource_map = renew_resource_map

\* C10: if the namespace holds no pod and stays empty, then eventually the
\* cursor map and the history are empty and the node resource map is
\* re-snapshotted.
C10_RenewalLiveness == []([](namespace_pods = {}) => <>renewed)

\* C10's case: every pod is gone for good while the cursor map, the history
\* and the node resource map still carry a placement.
C10_Witness ==
    /\ \A p \in Pods : cluster[p] = "deleted"
    /\ next_choice # EmptyMap
    /\ prev_sched # EmptyMap
    /\ node_resource_map # renew_resource_map

\* The place of node n among the entries of history[g], 0 when absent.
hist_pos(g, n) ==
    IF g \notin DOMAIN prev_sched THEN 0
    ELSE LET at == {i \in 1..Len(prev_sched[g]) : prev_sched[g][i].node_name = n}
         IN IF at = {} THEN 0 ELSE SetMin(at)

\* The pods whose sched_pod is past update_sched_hist.
recorded == {p \in Pods : tasks[p].pc \in {"emit", "done"} /\ tasks[p].ret # "false"}

\* C11: for every group the node entries of history[group] are in the order
\* in which the group's pods were bound: of two pods of a group, bound to
\* different nodes and both recorded, the one bound first has its node first.
C11_HistoryOrder ==
    \A p, q \in recorded :
        /\ get_pod_uuid(p) = get_pod_uuid(q)
        /\ 0 < tasks[p].bound_at /\ tasks[p].bound_at < tasks[q].bound_at
        /\ tasks[p].best # tasks[q].best
        /\ hist_pos(get_pod_uuid(p), tasks[p].best) > 0
        /\ hist_pos(get_pod_uuid(q), tasks[q].best) > 0
        => hist_pos(get_pod_uuid(p), tasks[p].best)
              < hist_pos(get_pod_uuid(q), tasks[q].best)

\* The pods whose sched_pod has run its predicate, or further.
attempted ==
    {p \in Pods : tasks[p].pc \in {"filtered", "reading", "bind", "hist", "emit", "done"}}

\* C12: after a schedule attempt has failed the loop keeps running: a pod in
\* the queue then is eventually dequeued and attempted.
C12_LoopStaysAlive ==
    \A p \in Pods :
        (failed_attempts # {} /\ tasks[p].pc = "queued") ~> (p \in attempted)

\* C12's case: a pod waits in the queue after another pod's attempt failed.
C12_Witness ==
    \E p \in Pods : failed_attempts # {} /\ tasks[p].pc = "queued"

(***************************************************************************)
(* SpecPred: EnoughResourcePredicate over the orchestrator's nodes and     *)
(* pods.  A quantity is its number and its suffix.                         *)
(***************************************************************************)
quantity_to_millicores(q) ==
    IF q.unit = "m" THEN q.val ELSE q.val * 1000

quantity_to_kibytes(q) ==
    IF q.unit = "Ki" THEN q.val
    ELSE IF q.unit = "Mi" THEN q.val * 1024
    ELSE q.val * 1024 * 1024

\* u64::saturating_sub
saturating_sub(a, b) == IF a >= b THEN a - b ELSE 0

\* node.status.allocatable of node n, as the orchestrator reports it.
allocatable(n) ==
    [cpu |-> [val |-> node_allocatable(n).cpu, unit |-> ""],
     memory |-> [val |-> node_allocatable(n).mem_kb, unit |-> "Ki"]]

get_allocatable_resources(n) ==
    [cpu |-> quantity_to_millicores(allocatable(n).cpu),
     mem_kb |-> quantity_to_kibytes(allocatable(n).memory)]

\* The requests of the pods of the list, from the i-th on, whose node_name
\* is n; an absent request adds nothing.
RECURSIVE allocated_from(_, _, _)
allocated_from(list, n, i) ==
    IF i > Len(list) THEN [cpu |-> 0, mem_kb |-> 0]
    ELSE LET rest == allocated_from(list, n, i + 1)
             pod == list[i]
         IN IF pod.listed /\ pod.node_name = n
            THEN [cpu |-> rest.cpu +
                         (IF pod.cpu = NoQuantity THEN 0
                          ELSE quantity_to_millicores(pod.cpu)),
                  mem_kb |-> rest.mem_kb +
                         (IF pod.memory = NoQuantity THEN 0
                          ELSE quantity_to_kibytes(pod.memory))]
            ELSE rest

get_allocated_resources(list, n) == allocated_from(list, n, 1)

get_remaining_resources(list, n) ==
    [cpu |-> saturating_sub(get_allocatable_resources(n).cpu,
                            get_allocated_resources(list, n).cpu),
     mem_kb |-> saturating_sub(get_allocatable_resources(n).mem_kb,
                               get_allocated_resources(list, n).mem_kb)]

\* EnoughResourcePredicate::judge: every node whose remaining resources
\* meet the request in both dimensions.
EnoughResourcePredicate_judge(list, request) ==
    judge([n \in Nodes |-> get_remaining_resources(list, n)],
          [cpu |-> request.millicore, mem_kb |-> request.mem_kb])

\* The quantities the pods of the model request.
CpuRequests == {NoQuantity, [val |-> 1500, unit |-> "m"], [val |-> 1, unit |-> ""]}
MemoryRequests == {NoQuantity, [val |-> 4, unit |-> "Gi"], [val |-> 512, unit |-> "Mi"]}

\* The requests judge is called with.
PodResources == [millicore : {0, 1000, 2500}, mem_kb : {0, 2097152, 4194304}]

\* Some pod appears in the orchestrator's list, bound to a node or unbound.
PodListed(i, node_name, cpu, memory) ==
    /\ ~pod_list[i].listed
    /\ pod_list' = [pod_list EXCEPT ![i] =
           [listed |-> TRUE, node_name |-> node_name, cpu |-> cpu, memory |-> memory]]
    /\ UNCHANGED <<cluster_vars, ops_vars, submit_vars, prio_vars, sched_vars, plan_vars, judged>>

\* One call of judge for a pod with the given request.
JudgeCall(request) ==
    /\ judged' = [valid |-> TRUE, pod_resource |-> request,
                  pod_list |-> pod_list,
                  node_names |-> EnoughResourcePredicate_judge(pod_list, request)]
    /\ UNCHANGED <<cluster_vars, ops_vars, submit_vars, prio_vars, sched_vars, plan_vars, pod_list>>

PredNext ==
    \/ \E i \in 1..MaxBound : \E node_name \in Nodes \cup {""} :
          \E cpu \in CpuRequests : \E memory \in MemoryRequests :
             PodListed(i, node_name, cpu, memory)
    \/ \E request \in PodResources : JudgeCall(request)

SpecPred == Init /\ [][PredNext]_vars

\* C8: every node judge returns has, in signed arithmetic, allocatable minus
\* the requests of the pods bound to it at least the pod's request, in
\* millicores and in KiB; a zero request and a node whose bound pods request
\* more than its allocatable included.
C8_PredicateSoundness ==
    judged.valid =>
        \A n \in judged.node_names :
            /\ get_allocatable_resources(n).cpu
                  - get_allocated_resources(judged.pod_list, n).cpu
               >= judged.pod_resource.millicore
            /\ get_allocatable_resources(n).mem_kb
                  - get_allocated_resources(judged.pod_list, n).mem_kb
               >= judged.pod_resource.mem_kb

(***************************************************************************)
(* SpecPlan: the submitter's planners.  A u32 is an integer; a negative x  *)
(* stands for the wrapped value x + 2^32, so wrapping_sub is the plain     *)
(* difference and the unsigned order puts the negative numbers last.       *)
(***************************************************************************)
WorkloadTypes == {"compute", "storage"}

\* A larger batch: five compute workloads, then two storage workloads.
LargeBatch == [i \in 1..7 |-> IF i <= 5 THEN "compute" ELSE "storage"]

\* The batches the planners are called with: at least one workload.
WorkloadLists ==
    UNION {[1..n -> WorkloadTypes] : n \in 1..MaxWorkloads} \cup {LargeBatch}

\* get_cluster_state in the doc comment's proportion: a gigabyte per core.
mem_mb_of(total_core) == total_core * 1024

\* a > b on u32
u32_gt(a, b) == IF (a < 0) = (b < 0) THEN a > b ELSE a < 0

\* a - b on u32 underflows
underflows(a, b) == u32_gt(b, a)

\* a plan that counts the driver's core among the executors
ResourcePlan_with_driver(nexec) ==
    [driver_cpu |-> 1, driver_mem_mb |-> 1024, exec_cpu |-> 1,
     exec_mem_mb |-> 1024, nexec |-> nexec + 1]

\* A plan with the fixed shape of the planners and the given nexec.
ResourcePlan(nexec) ==
    [driver_cpu |-> 1, driver_mem_mb |-> 1024, exec_cpu |-> 1,
     exec_mem_mb |-> 1024, nexec |-> nexec]

\* ResourcePlan::default()
ResourcePlan_default ==
    [driver_cpu |-> 1, driver_mem_mb |-> 1024, exec_cpu |-> 2,
     exec_mem_mb |-> 2048, nexec |-> 4]

\* FairPlanner::plan, the while loop from n_workload on.  With overflow
\* checks the subtraction core - 1 panics when core is 0; without them it
\* wraps.
RECURSIVE FairPlanner_loop(_, _, _, _)
FairPlanner_loop(state, n_workload, acc, overflow_checks) ==
    IF n_workload = 0
    THEN [state |-> state, plans |-> acc.plans, cores |-> acc.cores,
          panicked |-> FALSE]
    ELSE LET core == state.total_core \div n_workload
             mem_mb == state.total_mem_mb \div n_workload
         IN IF overflow_checks /\ underflows(core, 1)
            THEN [state |-> state, plans |-> acc.plans,
                  cores |-> Append(acc.cores, core), panicked |-> TRUE]
            ELSE FairPlanner_loop(
                     [total_core |-> state.total_core - core,
                      total_mem_mb |-> state.total_mem_mb - mem_mb],
                     n_workload - 1,
                     [plans |-> Append(acc.plans, ResourcePlan(core - 1)),
                      cores |-> Append(acc.cores, core)],
                     overflow_checks)

FairPlanner_plan(state, workload_types, overflow_checks) ==
    FairPlanner_loop(state, Len(workload_types),
                     [plans |-> <<>>, cores |-> <<>>], overflow_checks)

\* The submitter calls FairPlanner::plan.
FairPlan(workload_types, total_core, overflow_checks) ==
    /\ plan_pc = "idle"
    /\ \E r \in {FairPlanner_plan([total_core |-> total_core,
                                    total_mem_mb |-> mem_mb_of(total_core)],
                                   workload_types, overflow_checks)} :
          /\ cluster_state' = r.state
          /\ plans' = r.plans
          /\ alloc' = [c_core |-> 0, s_core |-> 0, cores |-> r.cores]
          /\ plan_pc' = IF r.panicked THEN "panicked" ELSE "done"
    /\ plan_call' = [planner |-> "Fair", workload_types |-> workload_types,
                     meta |-> <<>>, total_core |-> total_core,
                     total_mem_mb |-> mem_mb_of(total_core),
                     overflow_checks |-> overflow_checks]
    /\ UNCHANGED <<cluster_vars, ops_vars, submit_vars, prio_vars, sched_vars, pred_vars, rebalance_vars>>

\* the product truncated instead of rounded up
trunc_f64(w, n_compute, n_storage, total) ==
    IF total = 0 THEN {0}
    ELSE {(w * total) \div (3 * n_compute + 7 * n_storage)}

\* (w / denom * total).ceil() in f64, for the weight w (0.3 or 0.7, here in
\* tenths) and denom = 0.3 * n_compute + 0.7 * n_storage: the values the
\* rounded product can give.  A product that is not whole lies at least
\* 1 / (3 * n_compute + 7 * n_storage) off a whole number, far beyond the
\* rounding error; a whole product can land on the whole number or just
\* above it.  0 times anything is 0.
ceil_f64(w, n_compute, n_storage, total) ==
    LET d == 3 * n_compute + 7 * n_storage
        num == w * total
    IN IF total = 0 THEN {0}
       ELSE IF num % d = 0 THEN {num \div d, num \div d + 1}
       ELSE {num \div d + 1}

\* if x > floor { x } else { floor }
at_least(x, floor) == IF x > floor THEN x ELSE floor

\* WorkloadAwareFairPlanner::plan, the first pass: the compute workloads
\* from index i on (1-based) get c_core and c_mem.
RECURSIVE compute_pass(_, _, _, _, _, _)
compute_pass(acc, workload_types, i, c_core, c_mem, overflow_checks) ==
    IF i > Len(workload_types) \/ acc.panicked THEN acc
    ELSE IF workload_types[i] # "compute"
    THEN compute_pass(acc, workload_types, i + 1, c_core, c_mem, overflow_checks)
    ELSE IF overflow_checks /\ underflows(acc.state.total_core, c_core)
    THEN [acc EXCEPT !.panicked = TRUE]
    ELSE IF overflow_checks /\ underflows(acc.state.total_mem_mb, c_mem)
    THEN [acc EXCEPT !.panicked = TRUE,
                     !.state.total_core = @ - c_core]
    ELSE compute_pass(
             [acc EXCEPT !.state.total_core = @ - c_core,
                         !.state.total_mem_mb = @ - c_mem,
                         !.cores[i] = c_core,
                         !.plans[i] = ResourcePlan(c_core - 1)],
             workload_types, i + 1, c_core, c_mem, overflow_checks)

\* The second pass: the storage workloads from index i on get s_core and
\* s_mem clamped to what is left; the gap to the largest core count seen
\* is recorded under the 0-based index.
RECURSIVE storage_pass(_, _, _, _, _, _)
storage_pass(acc, workload_types, i, s_core, s_mem, overflow_checks) ==
    IF i > Len(workload_types) \/ acc.panicked THEN acc
    ELSE IF workload_types[i] # "storage"
    THEN storage_pass(acc, workload_types, i + 1, s_core, s_mem, overflow_checks)
    ELSE LET core == IF u32_gt(s_core, acc.state.total_core)
                     THEN acc.state.total_core ELSE s_core
             mem == IF u32_gt(s_mem, acc.state.total_mem_mb)
                    THEN acc.state.total_mem_mb ELSE s_mem
             max_core == IF u32_gt(core, acc.max_core) THEN core ELSE acc.max_core
             gap == max_core - core
             gaps == IF gap > 0
                     THEN [k \in DOMAIN acc.core_gap \cup {i - 1} |->
                              IF k = i - 1 THEN gap ELSE acc.core_gap[k]]
                     ELSE acc.core_gap
         IN IF overflow_checks /\ underflows(core, 1)
            THEN [acc EXCEPT !.panicked = TRUE, !.max_core = max_core,
                             !.cores[i] = core, !.core_gap = gaps]
            ELSE storage_pass(
                     [acc EXCEPT !.state.total_core = @ - core,
                                 !.state.total_mem_mb = @ - mem,
                                 !.plans[i] = ResourcePlan(core - 1),
                                 !.cores[i] = core,
                                 !.max_core = max_core,
                                 !.core_gap = gaps],
                     workload_types, i + 1, s_core, s_mem, overflow_checks)

\* The number of workloads of the type ty.
count_type(workload_types, ty) ==
    Cardinality({i \in 1..Len(workload_types) : workload_types[i] = ty})

\* WorkloadAwareFairPlanner::plan up to the rebalance: the possible results.
WorkloadAwareFairPlanner_passes(state, workload_types, overflow_checks) ==
    LET n_compute == count_type(workload_types, "compute")
        n_storage == count_type(workload_types, "storage")
        start(c_core, s_core) ==
            [state |-> state,
             plans |-> [i \in 1..Len(workload_types) |-> ResourcePlan_default],
             cores |-> [i \in 1..Len(workload_types) |-> 0],
             c_core |-> c_core, s_core |-> s_core,
             max_core |-> 0, core_gap |-> EmptyMap, panicked |-> FALSE]
    IN {storage_pass(
            compute_pass(start(at_least(c_core, 2), at_least(s_core, 2)),
                         workload_types, 1, at_least(c_core, 2),
                         at_least(c_mem, 2048), overflow_checks),
            workload_types, 1, at_least(s_core, 2), at_least(s_mem, 2048),
            overflow_checks) :
          c_core \in ceil_f64(3, n_compute, n_storage, state.total_core),
          c_mem \in ceil_f64(3, n_compute, n_storage, state.total_mem_mb),
          s_core \in ceil_f64(7, n_compute, n_storage, state.total_core),
          s_mem \in ceil_f64(7, n_compute, n_storage, state.total_mem_mb)}

\* The submitter calls WorkloadAwareFairPlanner::plan: both passes.
WorkloadAwarePlan(workload_types, total_core, overflow_checks) ==
    /\ plan_pc = "idle"
    /\ \E r \in WorkloadAwareFairPlanner_passes(
                     [total_core |-> total_core,
                      total_mem_mb |-> mem_mb_of(total_core)],
                     workload_types, overflow_checks) :
          /\ cluster_state' = r.state
          /\ plans' = r.plans
          /\ core_gap' = r.core_gap
          /\ core_gap0' = r.core_gap
          /\ alloc' = [c_core |-> r.c_core, s_core |-> r.s_core, cores |-> r.cores]
          /\ gap_todo' = IF r.panicked THEN {} ELSE DOMAIN r.core_gap
          /\ plan_pc' = IF r.panicked THEN "panicked" ELSE "rebalance"
    /\ plan_call' = [planner |-> "WorkloadAwareFair",
                     workload_types |-> workload_types,
                     meta |-> <<>>, total_core |-> total_core,
                     total_mem_mb |-> mem_mb_of(total_core),
                     overflow_checks |-> overflow_checks]
    /\ gap_idx' = 0
    /\ ptr' = 0
    /\ steals' = 0
    /\ UNCHANGED <<cluster_vars, ops_vars, submit_vars, prio_vars, sched_vars, pred_vars>>

\* for (idx, gap) in core_gap.iter_mut(): the next key, in the HashMap's
\* order (any), or the end of the rebalance.
NextGap ==
    /\ plan_pc = "rebalance"
    /\ IF gap_todo = {}
       THEN /\ plan_pc' = "done"
            /\ UNCHANGED <<gap_todo, gap_idx>>
       ELSE \E idx \in gap_todo :
               /\ gap_idx' = idx
               /\ gap_todo' = gap_todo \ {idx}
               /\ plan_pc' = "steal"
    /\ UNCHANGED <<cluster_vars, ops_vars, submit_vars, prio_vars, sched_vars, pred_vars, plan_call, cluster_state,
                   plans, core_gap, core_gap0, alloc, ptr, steals>>

\* a check that never finds the compute plans exhausted
can_always_steal == TRUE

\* some compute plan has nexec > 1
can_steal ==
    \E i \in 1..Len(plans) :
        plan_call.workload_types[i] = "compute" /\ u32_gt(plans[i].nexec, 1)

\* The inner for loop from the 0-based index i = ptr on: the cursor moves
\* on (circularly), a compute plan with nexec > 1 gives an executor to the
\* plan at idx, and the loop breaks when the gap is closed.
RECURSIVE sweep(_, _)
sweep(acc, i) ==
    IF i >= Len(acc.plans) THEN acc
    ELSE LET next_ptr == IF i = Len(acc.plans) - 1 THEN 0 ELSE i + 1
         IN IF plan_call.workload_types[i + 1] = "compute"
               /\ u32_gt(acc.plans[i + 1].nexec, 1)
            THEN LET stolen ==
                        [acc EXCEPT !.ptr = next_ptr,
                                    !.plans[i + 1].nexec = @ - 1,
                                    !.plans[gap_idx + 1].nexec = @ + 1,
                                    !.gap = @ - 1,
                                    !.steals = @ + 1]
                 IN IF stolen.gap = 0 THEN stolen ELSE sweep(stolen, i + 1)
            ELSE sweep([acc EXCEPT !.ptr = next_ptr], i + 1)

\* while *gap > 0: one iteration, or the end of the while loop.
Sweep ==
    /\ plan_pc = "steal"
    /\ IF core_gap[gap_idx] > 0 /\ can_steal
       THEN \E r \in {sweep([plans |-> plans, gap |-> core_gap[gap_idx],
                              ptr |-> ptr, steals |-> steals], ptr)} :
               /\ plans' = r.plans
               /\ core_gap' = [core_gap EXCEPT ![gap_idx] = r.gap]
               /\ ptr' = r.ptr
               /\ steals' = r.steals
               /\ UNCHANGED <<plan_pc, gap_idx>>
       ELSE /\ plan_pc' = "rebalance"
            /\ gap_idx' = 0
            /\ UNCHANGED <<plans, core_gap, ptr, steals>>
    /\ UNCHANGED <<cluster_vars, ops_vars, submit_vars, prio_vars, sched_vars, pred_vars, plan_call, cluster_state,
                   core_gap0, alloc, gap_todo>>

\* profiled_table: workload -> the measured time with 1, 2, ... executors.
profiled_table ==
    [wc |-> <<82250, 67000, 66000, 72500, 67000, 65500, 65000,
          85000, 66000, 67000, 71500, 78000, 78000, 79500,
          94000, 95000, 97500, 117000, 115000, 111000, 130000>>,
     pi |-> <<103000, 67100, 57500, 55000, 53000, 54000, 50000,
          50000, 48000, 46000, 45500, 46000, 44500, 44000,
          43000, 42400, 43250, 43400, 44600, 43500, 43400>>,
     svm |-> <<71300, 74800, 80000, 85000, 87000, 91500, 95000,
          92000, 95500, 95000, 96500, 101000, 102500, 107000,
          140000, 200000, 220000, 260000, 310000, 390000, 420000>>,
     sort |-> <<280000, 162000, 121500, 128000, 100000, 100000, 94000,
          105000, 97000, 103000, 95000, 89000, 88000, 94000,
          104000, 115000, 112000, 129000, 132000, 140000, 140000>>]

WorkloadNames == DOMAIN profiled_table

\* The batches the profiled planner is called with.
MetaLists == UNION {[1..n -> WorkloadNames] : n \in 1..MaxWorkloads}

\* The workload types the profiled planner is called with: from_profiled
\* never reads them (_workload_types), so only their number varies.
ProfiledWorkloadLists == {[i \in 1..n |-> "compute"] : n \in 1..MaxWorkloads}

\* u64::MAX, the initial value of dp: a number above every time of the table.
U64_MAX == 2147483647

\* a maximum that forgets the time of the earlier workloads
max_forgetful(a, b) == IF a = U64_MAX THEN a ELSE b

max(a, b) == IF a >= b THEN a ELSE b

\* min_execution_time: dp[i][nexec] and decision[i][nexec] for the 0-based
\* workload i, given row i - 1 (prev).  A row is the sequence of its
\* entries for nexec = 0..max_exec.  The strict comparison keeps the first
\* workload_nexec that reaches the least time.
dp_entry(prev, workload, i, nexec) ==
    IF nexec < i + 1 THEN [time |-> U64_MAX, decision |-> 0]
    ELSE LET new_time(workload_nexec) ==
                 IF i = 0 THEN profiled_table[workload][workload_nexec]
                 ELSE max(prev[nexec - workload_nexec + 1].time,
                          profiled_table[workload][workload_nexec])
             least == SetMin({new_time(workload_nexec) : workload_nexec \in 1..nexec})
         IN IF least < U64_MAX
            THEN [time |-> least,
                  decision |-> SetMin({workload_nexec \in 1..nexec :
                                          new_time(workload_nexec) = least})]
            ELSE [time |-> U64_MAX, decision |-> 0]

dp_row(prev, workload, i, max_exec) ==
    SubSeq([k \in 1..(max_exec + 1) |-> dp_entry(prev, workload, i, k - 1)],
           1, max_exec + 1)

\* The rows 0..i of dp and decision.
RECURSIVE dp_rows(_, _, _)
dp_rows(workloads, i, max_exec) ==
    IF i = 0 THEN <<dp_row(<<>>, workloads[1], 0, max_exec)>>
    ELSE LET rows == dp_rows(workloads, i - 1, max_exec)
         IN Append(rows, dp_row(rows[i], workloads[i + 1], i, max_exec))

\* a reconstruction that reads every decision at the optimal total
RECURSIVE reconstruct_no_remaining(_, _, _)
reconstruct_no_remaining(decision, num_workloads, remaining_exec) ==
    IF num_workloads = 0 THEN <<>>
    ELSE Append(reconstruct_no_remaining(decision, num_workloads - 1, remaining_exec),
                decision[num_workloads][remaining_exec + 1].decision)

\* reconstruct_nexecs: from the last workload back.
RECURSIVE reconstruct_nexecs(_, _, _)
reconstruct_nexecs(decision, num_workloads, remaining_exec) ==
    IF num_workloads = 0 THEN <<>>
    ELSE LET nexec == decision[num_workloads][remaining_exec + 1].decision
         IN Append(reconstruct_nexecs(decision, num_workloads - 1,
                                      remaining_exec - nexec),
                   nexec)

\* min_execution_time: the least time of the last row (min_by_key keeps the
\* first least element) and the executors of each workload.
min_execution_time(workloads, max_exec) ==
    LET rows == dp_rows(workloads, Len(workloads) - 1, max_exec)
        last == rows[Len(workloads)]
        min_time == SetMin({last[k].time : k \in 1..(max_exec + 1)})
        optimal_total_nexec ==
            SetMin({k \in 1..(max_exec + 1) : last[k].time = min_time}) - 1
    IN [min_time |-> min_time,
        optimal_total_nexec |-> optimal_total_nexec,
        nexecs |-> reconstruct_nexecs(rows, Len(workloads), optimal_total_nexec)]

DEFAULT_DRIVER_CORE == 1

\* The submitter calls ProfiledPlanner::plan (from_profiled).  The budget
\* ncore - nworkload * DEFAULT_DRIVER_CORE is a usize: below 0 the
\* subtraction panics or the wrapped length makes the allocation or the
\* first index panic.  A budget beyond the table panics at the lookup.
ProfiledPlan(workload_types, meta, total_core) ==
    LET max_exec == total_core - Len(meta) * DEFAULT_DRIVER_CORE
        fits == max_exec >= 0 /\ \A i \in 1..Len(meta) :
                                     max_exec <= Len(profiled_table[meta[i]])
    IN /\ plan_pc = "idle"
       /\ IF fits
          THEN \E r \in {min_execution_time(meta, max_exec)} :
                  /\ plans' = [i \in 1..Len(meta) |-> ResourcePlan(r.nexecs[i])]
                  /\ plan_pc' = "done"
          ELSE /\ plans' = <<>>
               /\ plan_pc' = "panicked"
       /\ plan_call' = [planner |-> "Profiled", workload_types |-> workload_types,
                        meta |-> meta, total_core |-> total_core,
                        total_mem_mb |-> mem_mb_of(total_core),
                        overflow_checks |-> FALSE]
       /\ cluster_state' = [total_core |-> total_core,
                            total_mem_mb |-> mem_mb_of(total_core)]
       /\ UNCHANGED <<cluster_vars, ops_vars, submit_vars, prio_vars, sched_vars, pred_vars, rebalance_vars, alloc>>

PlanNext ==
    \/ \E workload_types \in WorkloadLists : \E total_core \in 0..MaxCores :
          \E overflow_checks \in BOOLEAN :
             \/ FairPlan(workload_types, total_core, overflow_checks)
             \/ WorkloadAwarePlan(workload_types, total_core, overflow_checks)
    \/ \E workload_types \in ProfiledWorkloadLists : \E meta \in MetaLists :
          \E total_core \in 0..MaxProfiledCores :
             ProfiledPlan(workload_types, meta, total_core)
    \/ NextGap
    \/ Sweep

SpecPlan == Init /\ [][PlanNext]_vars

\* The planner runs to its end: the loops of the rebalance keep stepping.
FairSpecPlan ==
    /\ Init /\ [][PlanNext]_vars
    /\ WF_vars(NextGap)
    /\ WF_vars(Sweep)

(***************************************************************************)
(* The claims about the planners, under SpecPlan.                          *)
(***************************************************************************)
\* C13: every plan a planner emits has nexec >= 1, driver_cpu >= 1,
\* exec_cpu >= 1 and driver_mem_mb >= 1024, nexec not wrapped below 0, for
\* every planner, every batch and every total (small totals included).
C13_PlannerFloor ==
    plan_pc = "done" =>
        \A i \in 1..Len(plans) :
            /\ plans[i].nexec >= 1
            /\ plans[i].driver_cpu >= 1
            /\ plans[i].exec_cpu >= 1
            /\ plans[i].driver_mem_mb >= 1024

\* The sum of nexec over the plans from the i-th on.
RECURSIVE sum_nexec(_, _)
sum_nexec(ps, i) ==
    IF i > Len(ps) THEN 0 ELSE ps[i].nexec + sum_nexec(ps, i + 1)

\* C14: a FairPlanner run over W >= 1 workloads with total_core T emits
\* plans whose nexec (none of them wrapped) sum to T - W, and leaves
\* state.total_core at 0.
C14_FairConservation ==
    plan_call.planner = "Fair" =>
        /\ plan_pc = "done"
        /\ \A i \in 1..Len(plans) : plans[i].nexec >= 0
        /\ sum_nexec(plans, 1) = plan_call.total_core - Len(plan_call.workload_types)
        /\ cluster_state.total_core = 0

\* Scenario S1: the FairPlanner called with 4 workloads, 22 cores and
\* 22 * 1024 MB.
S1_call ==
    /\ plan_call.planner = "Fair"
    /\ Len(plan_call.workload_types) = 4
    /\ plan_call.total_core = 22
    /\ plan_call.total_mem_mb = 22 * 1024

\* C19: in scenario S1 the core allocations of the iterations are 5, 5, 6,
\* 6, every plan has nexec = its core allocation - 1 and exec_mem_mb = 1024.
C19_ScenarioS1 ==
    S1_call =>
        /\ plan_pc = "done"
        /\ alloc.cores = <<5, 5, 6, 6>>
        /\ \A i \in 1..4 : /\ plans[i].nexec = alloc.cores[i] - 1
                           /\ plans[i].exec_mem_mb = 1024

\* C19's case: the run of scenario S1 has returned its four plans.
C19_Witness == S1_call /\ plan_pc = "done" /\ Len(plans) = 4

\* The profiled planner has returned plans that all have executors.
profiled_done ==
    /\ plan_call.planner = "Profiled"
    /\ plan_pc = "done"
    /\ \A i \in 1..Len(plans) : plans[i].nexec >= 1

\* max over the workloads of T[workload_i][nexec_i]
makespan(meta, nexecs) ==
    SetMin({t \in {profiled_table[meta[i]][nexecs[i]] : i \in 1..Len(meta)} :
               \A i \in 1..Len(meta) : profiled_table[meta[i]][nexecs[i]] <= t})

\* The assignments of executors to W workloads, each at least 1, that sum
\* to total.
assignments(W, total) ==
    {a \in [1..W -> 1..(total - W + 1)] :
        sum_nexec([i \in 1..W |-> [nexec |-> a[i]]], 1) = total}

\* C15: no assignment of executors (each >= 1) with the same total as the
\* profiled planner's plan has a smaller maximum of T[workload_i][nexec_i].
C15_ProfiledOptimal ==
    profiled_done =>
        \A a \in assignments(Len(plans), sum_nexec(plans, 1)) :
            makespan(plan_call.meta, a)
               >= makespan(plan_call.meta, [i \in 1..Len(plans) |-> plans[i].nexec])

\* C15's case: the profiled planner returned a plan for several workloads
\* whose total other assignments reach too.
C15_Witness ==
    /\ profiled_done
    /\ Len(plans) >= 2
    /\ Cardinality(assignments(Len(plans), sum_nexec(plans, 1))) >= 2

\* C16: the executors the profiled planner returns sum to the budget
\* N = total_cores - W * driver_cores, W the number of workloads.
C16_ProfiledBudget ==
    plan_call.planner = "Profiled" /\ plan_pc = "done" =>
        sum_nexec(plans, 1)
           = plan_call.total_core - Len(plan_call.meta) * DEFAULT_DRIVER_CORE

\* Scenario S3: the profiled planner called for pi and wc with the budget 4.
S3_call ==
    /\ plan_call.planner = "Profiled"
    /\ plan_call.meta = <<"pi", "wc">>
    /\ plan_call.total_core - 2 * DEFAULT_DRIVER_CORE = 4

\* C20: in scenario S3, with T[pi][1..4] = 103000, 67100, 57500, 55000 and
\* T[wc][1..4] = 82250, 67000, 66000, 72500, the dynamic program returns
\* nexecs = [2, 2].
C20_ScenarioS3 ==
    /\ SubSeq(profiled_table["pi"], 1, 4) = <<103000, 67100, 57500, 55000>>
    /\ SubSeq(profiled_table["wc"], 1, 4) = <<82250, 67000, 66000, 72500>>
    /\ S3_call =>
          /\ plan_pc = "done"
          /\ [i \in 1..Len(plans) |-> plans[i].nexec] = <<2, 2>>

\* C20's case: the run of scenario S3 has returned.
C20_Witness == S3_call /\ plan_pc = "done" /\ Len(plans) = 2

\* The sum of the gaps of the keys S of the map g.
RECURSIVE sum_gap(_, _)
sum_gap(g, S) ==
    IF S = {} THEN 0
    ELSE LET k == CHOOSE x \in S : TRUE IN g[k] + sum_gap(g, S \ {k})

\* The rebalance of the WorkloadAwareFairPlanner is running.
rebalancing == plan_pc \in {"rebalance", "steal"}

\* C17: the work-stealing loop always terminates, and it moves at most
\* (sum of gap[i]) executors, for every batch and every cursor position.
C17_RebalanceTerminates ==
    /\ [](steals <= sum_gap(core_gap0, DOMAIN core_gap0))
    /\ (rebalancing ~> plan_pc = "done")

\* C17's case: the rebalance is in its stealing loop with an executor moved
\* and a gap still open.
C17_Witness ==
    plan_pc = "steal" /\ steals > 0 /\ core_gap[gap_idx] > 0

\* Scenario S2: the WorkloadAwareFairPlanner called with 2 compute and
\* 2 storage workloads (in any order) and 24 cores.
S2_call ==
    /\ plan_call.planner = "WorkloadAwareFair"
    /\ Len(plan_call.workload_types) = 4
    /\ count_type(plan_call.workload_types, "compute") = 2
    /\ count_type(plan_call.workload_types, "storage") = 2
    /\ plan_call.total_core = 24

\* The 1-based positions of the two storage workloads of the call.
first_storage ==
    CHOOSE i \in 1..4 : /\ plan_call.workload_types[i] = "storage"
                         /\ \A k \in 1..(i - 1) : plan_call.workload_types[k] # "storage"
second_storage ==
    CHOOSE i \in 1..4 : /\ plan_call.workload_types[i] = "storage"
                         /\ \E k \in 1..(i - 1) : plan_call.workload_types[k] = "storage"

\* The course of scenario S2 with the second storage workload ending at
\* final_nexec executors: c_core = 4, s_core = 9, the storage workloads get
\* 9 and 7 cores, the only gap is 2 for the second storage workload, the
\* compute plans start at nexec = 3, and at the end 2 executors have been
\* moved, each compute plan is at nexec = 2 and the second storage plan at
\* final_nexec.
S2_course(final_nexec) ==
    S2_call =>
        /\ plan_pc # "panicked"
        /\ alloc.c_core = 4
        /\ alloc.s_core = 9
        /\ alloc.cores[first_storage] = 9
        /\ alloc.cores[second_storage] = 7
        /\ core_gap0 = ((second_storage - 1) :> 2)
        /\ steals = 0 =>
              \A i \in 1..4 : plan_call.workload_types[i] = "compute"
                                 => plans[i].nexec = 3
        /\ plan_pc = "done" =>
              /\ steals = 2
              /\ \A i \in 1..4 : plan_call.workload_types[i] = "compute"
                                    => plans[i].nexec = 2
              /\ plans[second_storage].nexec = final_nexec

\* C18 as stated: in scenario S2 c_core = 4, s_core = 9, the storage cores
\* are 9 and 7, the gap of the second storage workload is 2, and the
\* rebalance moves 2 executors from the compute plans (3 -> 2 each),
\* bringing the second storage workload to nexec = 9.
C18_ScenarioS2_Stated == S2_course(9)

\* C18, amended: as above, but the rebalance brings the second storage
\* workload to nexec = 8, that is 9 cores with its driver, the same as the
\* first storage workload.
C18_ScenarioS2 ==
    /\ S2_course(8)
    /\ (S2_call /\ plan_pc = "done")
          => plans[second_storage].nexec = plans[first_storage].nexec

\* C18's case: the run of scenario S2 has finished its rebalance.
C18_Witness == S2_call /\ plan_pc = "done" /\ steals = 2

\* C21: each of the three planners returns a list of plans as long as the
\* list of workload types passed in, whatever the meta argument is.
C21_OnePlanPerWorkload ==
    plan_pc = "done" => Len(plans) = Len(plan_call.workload_types)

\* The cores the plans from index i on hand out:
\* sum of driver_cpu + exec_cpu * nexec.
RECURSIVE sum_cores(_, _)
sum_cores(ps, i) ==
    IF i > Len(ps) THEN 0
    ELSE ps[i].driver_cpu + ps[i].exec_cpu * ps[i].nexec + sum_cores(ps, i + 1)

\* C22: during and after a run of the WorkloadAwareFairPlanner that has not
\* panicked, state.total_core and state.total_mem_mb have not wrapped below
\* zero, no plan's nexec has, and the cores handed out do not exceed the
\* cluster's total_core at the call.
C22_PlannerCapacity ==
    (plan_call.planner = "WorkloadAwareFair" /\ plan_pc # "panicked") =>
        /\ cluster_state.total_core >= 0
        /\ cluster_state.total_mem_mb >= 0
        /\ \A i \in 1..Len(plans) : plans[i].nexec >= 0
        /\ sum_cores(plans, 1) <= plan_call.total_core

\* C23: when the bind succeeded and the creation of the "Scheduled" event
\* fails, sched_pod still reports success, and the step leaves the history
\* with the entry update_sched_hist wrote for the pod.
C23_EventFailureNotScheduleFailure ==
    [][\A p \in Pods :
          (/\ tasks[p].pc = "emit" /\ tasks'[p].pc = "done"
           /\ tasks[p].bind_ok
           /\ tasks'[p].event_result = "Err")
          => /\ tasks'[p].ret = "true"
             /\ prev_sched' = prev_sched]_vars

\* C23's case: a pod was bound, its event was refused, sched_pod returned,
\* and the history holds the pod's node.
C23_Witness ==
    \E p \in Pods :
       /\ tasks[p].pc = "done" /\ tasks[p].bind_ok
       /\ tasks[p].event_result = "Err"
       /\ hist_pos(get_pod_uuid(p), tasks[p].best) > 0

\* C24: every event emit_event builds has reason "Scheduled", type
\* "Normal", count 1, the scheduler's name as source component,
\* generate_name "<pod_name>-", and its one involved object is of kind Pod
\* with the name and namespace of the pod passed in.
C24_EventShape ==
    \A p \in Pods :
       tasks[p].event_result # "none" =>
          /\ tasks[p].event.reason = "Scheduled"
          /\ tasks[p].event.type_ = "Normal"
          /\ tasks[p].event.count = 1
          /\ tasks[p].event.source.component = SCHEDULER_NAME
          /\ tasks[p].event.metadata.generate_name = pod_name_of(p) \o "-"
          /\ tasks[p].event.involved_object =
                [kind |-> "Pod", name |-> pod_name_of(p),
                 namespace |-> pod_namespace_of(p)]

\* C24's case: an event was created for a pod.
C24_Witness == \E p \in Pods : tasks[p].event_result = "Ok"

(***************************************************************************)
(* SpecOps: bind_pod_to_node alone, given any answer to the binding        *)
(* request.                                                                *)
(***************************************************************************)
\* The codes a Status answer can carry.
StatusCodes == 100..599

\* The answers to create_subresource("binding", ...): a request error, or a
\* Status whose code (an Option: <<>> is None) is missing or present.
BindResponses ==
    {[error |-> TRUE, code |-> <<>>]}
       \cup {[error |-> FALSE, code |-> c] :
                c \in {<<>>} \cup {<<k>> : k \in StatusCodes}}

\* a bind that takes every 2xx code for success
bind_any_2xx(response) ==
    IF response.error \/ response.code = <<>> THEN "Err"
    ELSE IF response.code[1] >= 200 /\ response.code[1] <= 299 THEN "Ok"
    ELSE "Err"

\* Scheduler::bind_pod_to_node after the request: res?, the match on
\* status.code, and the test of the code.
bind_pod_to_node(response) ==
    IF response.error THEN "Err"
    ELSE IF response.code = <<>> THEN "Err"
    ELSE LET code == response.code[1]
         IN IF code >= 200 /\ code <= 202 THEN "Ok" ELSE "Err"

\* One binding request is answered.
BindCall(response) ==
    /\ bind_call' = [valid |-> TRUE, error |-> response.error,
                     code |-> response.code,
                     result |-> bind_pod_to_node(response)]
    /\ UNCHANGED <<cluster_vars, submit_vars, prio_vars, sched_vars, pred_vars, plan_vars>>

OpsNext == \E response \in BindResponses : BindCall(response)

SpecOps == Init /\ [][OpsNext]_vars

\* C30: bind_pod_to_node returns success if and only if the request
\* returned a status whose code is in [200, 202]; a request error, a
\* missing code or any other code yields an error.
C30_BindOutcome ==
    bind_call.valid =>
        /\ bind_call.result \in {"Ok", "Err"}
        /\ bind_call.result = "Ok"
              <=> /\ ~bind_call.error
                  /\ bind_call.code # <<>>
                  /\ \E k \in 200..202 : bind_call.code = <<k>>

\* C30's case: a request answered with the last code of the range.
C30_Witness == bind_call.valid /\ bind_call.code = <<202>> /\ bind_call.result = "Ok"

(***************************************************************************)
(* SpecSubmit: the submitter's sched, from the plans to the cleanup.       *)
(***************************************************************************)
MaxJobs == 3

\* --tags: the batches the submitter is run for.
JobLists == UNION {[1..n -> WorkloadTypes] : n \in 1..MaxJobs}

\* The values Uuid::new_v4() returns, in the order it returns them from
\* some first one on: never the same twice in a run.
Uuids == <<"0a1b", "2c3d", "4e5f", "6a7b">>
Uuid_new_v4(first, i) == Uuids[((first + i - 2) % Len(Uuids)) + 1]

\* The other arguments of the run.
Args ==
    [path |-> "spark-submit", master |-> "k8s://https://10.0.0.1:6443",
     deploy_mode |-> "cluster", ns |-> "spark", service_account |-> "spark",
     image |-> "spark-py:latest", pvc_name |-> "spark-local-dir-1",
     pvc_claim_name |-> "spark-pvc", pvc_mount_path |-> "/mnt",
     progs |-> <<"pi.py 100", "wc.py /mnt/in", "sort.py /mnt/in", "svm.py">>]

\* self.prog.split(' ') of the progs of Args.
prog_split(prog) ==
    CASE prog = "pi.py 100" -> <<"pi.py", "100">>
      [] prog = "wc.py /mnt/in" -> <<"wc.py", "/mnt/in">>
      [] prog = "sort.py /mnt/in" -> <<"sort.py", "/mnt/in">>
      [] OTHER -> <<prog>>

DEFAULT_NODE_SELECTOR_LABEL_KEY == "spark-uuid"
DEFAULT_WORKLOAD_TYPE_KEY == "spark-workload-type"

\* ResourcePlan's accessors: the fields as strings.
plan_driver_cpu(plan) == ToString(plan.driver_cpu)
plan_driver_mem_mb(plan) == ToString(plan.driver_mem_mb) \o "m"
plan_exec_cpu(plan) == ToString(plan.exec_cpu)
plan_exec_mem_mb(plan) == ToString(plan.exec_mem_mb) \o "m"
plan_nexec(plan) == ToString(plan.nexec)

\* str::parse::<u32> of a decimal string.
parse_u32(str) == CHOOSE n \in 0..64 : ToString(n) = str

parallelism_func(driver_cpu, exec_cpu, nexec) ==
    LET dcore == parse_u32(driver_cpu)
        ecore == parse_u32(exec_cpu)
        total_core == dcore + ecore * parse_u32(nexec)
    IN 5 * total_core

add_kv(cmd, key, value) == cmd \o <<key, value>>
add_conf(cmd, conf) == cmd \o <<"--conf", conf>>

\* PysparkSubmitBuilder ... build(): the PySparkSubmit of a workload.  The
\* builder has no field for the workload type passed at the call.
PySparkSubmit(plan, scheduler_name, workload_type, prog) ==
    LET pvc == [name |-> Args.pvc_name, claim_name |-> Args.pvc_claim_name,
                mount_path |-> Args.pvc_mount_path]
    IN [path |-> Args.path, master |-> Args.master,
        deploy_mode |-> Args.deploy_mode, ns |-> Args.ns,
        service_account |-> Args.service_account, image |-> Args.image,
        parallelism |-> parallelism_func(plan_driver_cpu(plan),
                                         plan_exec_cpu(plan), plan_nexec(plan)),
        scheduler_name |-> scheduler_name,
        driver_args |-> [core |-> plan_driver_cpu(plan),
                         memory |-> plan_driver_mem_mb(plan), pvc |-> pvc],
        exec_args |-> [core |-> plan_exec_cpu(plan),
                       memory |-> plan_exec_mem_mb(plan),
                       nr |-> plan_nexec(plan), pvc |-> pvc],
        prog |-> prog]

\* PySparkSubmit::into_command with the uuid id: the argv.
into_command(self, id) ==
    LET pvc_conf(role, pvc) ==
            <<"--conf",
              "spark.kubernetes." \o role \o ".volumes.persistentVolumeClaim."
                 \o pvc.name \o ".options.claimName=" \o pvc.claim_name,
              "--conf",
              "spark.kubernetes." \o role \o ".volumes.persistentVolumeClaim."
                 \o pvc.name \o ".mount.path=" \o pvc.mount_path>>
        head ==
            <<self.path, "--master", self.master,
              "--deploy-mode", self.deploy_mode, "--name", "spark",
              "--conf", "spark.kubernetes.namespace=" \o self.ns,
              "--conf", "spark.kubernetes.authenticate.driver.serviceAccountName="
                           \o self.service_account,
              "--conf", "spark.kubernetes.container.image=" \o self.image,
              "--conf", "spark.default.parallelism=" \o ToString(self.parallelism),
              "--conf", "spark.driver.cores=" \o self.driver_args.core,
              "--conf", "spark.driver.memory=" \o self.driver_args.memory>>
        execs ==
            <<"--conf", "spark.executor.instances=" \o self.exec_args.nr,
              "--conf", "spark.executor.cores=" \o self.exec_args.core,
              "--conf", "spark.executor.memory=" \o self.exec_args.memory>>
        labels ==
            add_conf(add_conf(<<>>,
                "spark.kubernetes.driver.label."
                    \o DEFAULT_NODE_SELECTOR_LABEL_KEY \o "=" \o id),
                "spark.kubernetes.executor.label."
                    \o DEFAULT_NODE_SELECTOR_LABEL_KEY \o "=" \o id)
        sched_conf ==
            IF self.scheduler_name # ""
            THEN add_conf(<<>>, "spark.kubernetes.scheduler.name="
                                   \o self.scheduler_name)
            ELSE <<>>
    IN head \o pvc_conf("driver", self.driver_args.pvc) \o execs
          \o pvc_conf("executor", self.exec_args.pvc) \o labels
          \o sched_conf \o prog_split(self.prog)

\* sched, from the planner's answer to the end of the loop that builds the
\* commands: plans[i] panics when the planner returned fewer plans than
\* there are progs; with --no-run it returns.
SubmitStart(tags, nexec, n_plans, scheduler_name, no_run, no_exit, first) ==
    /\ submit_pc = "idle"
    /\ submit_call' = [tags |-> tags, nexec |-> nexec, n_plans |-> n_plans,
                       scheduler_name |-> scheduler_name,
                       no_run |-> no_run, no_exit |-> no_exit]
    /\ cmds' = [i \in 1..(IF n_plans < Len(tags) THEN n_plans ELSE Len(tags)) |->
                  into_command(PySparkSubmit(ResourcePlan(nexec), scheduler_name,
                                             tags[i], Args.progs[i]),
                               Uuid_new_v4(first, i))]
    /\ submit_pc' = IF n_plans < Len(tags) THEN "panicked"
                    ELSE IF no_run THEN "returned"
                    ELSE "spawn_compute"
    /\ spawn_i' = 1
    /\ UNCHANGED <<childs, exited, cleaned>>
    /\ UNCHANGED <<cluster_vars, ops_vars, prio_vars, sched_vars, pred_vars, plan_vars>>

\* a pass that spawns every command
spawn_every(i, ty) == TRUE

\* if workload_types[i] == resource::WorkloadType::Compute (or Storage)
spawn_in_pass(i, ty) == submit_call.tags[i] = ty

\* One iteration of the spawn loop of the pass for ty, or its end: the
\* command is spawned, and a spawn error panics (unwrap).
SpawnStep(ty, this_pc, next_pc, spawned) ==
    /\ submit_pc = this_pc
    /\ IF spawn_i > Len(cmds)
       THEN /\ submit_pc' = next_pc
            /\ spawn_i' = 1
            /\ UNCHANGED childs
       ELSE IF spawn_in_pass(spawn_i, ty)
       THEN IF spawned
            THEN /\ childs' = Append(childs, spawn_i)
                 /\ spawn_i' = spawn_i + 1
                 /\ UNCHANGED submit_pc
            ELSE /\ submit_pc' = "panicked"
                 /\ UNCHANGED <<childs, spawn_i>>
       ELSE /\ spawn_i' = spawn_i + 1
            /\ UNCHANGED <<childs, submit_pc>>
    /\ UNCHANGED <<submit_call, cmds, exited, cleaned>>
    /\ UNCHANGED <<cluster_vars, ops_vars, prio_vars, sched_vars, pred_vars, plan_vars>>

SpawnCompute(spawned) == SpawnStep("compute", "spawn_compute", "spawn_storage", spawned)
SpawnStorage(spawned) == SpawnStep("storage", "spawn_storage", "waiting", spawned)

\* The task of the k-th child: child.wait() returns, worker.done().
WorkerDone(k) ==
    /\ submit_pc = "waiting"
    /\ k \in 1..Len(childs)
    /\ k \notin exited
    /\ exited' = exited \cup {k}
    /\ UNCHANGED <<submit_call, submit_pc, cmds, childs, spawn_i, cleaned>>
    /\ UNCHANGED <<cluster_vars, ops_vars, prio_vars, sched_vars, pred_vars, plan_vars>>

\* a wait group that returns at the first worker done
wg_wait_first == exited # {} \/ childs = <<>>

\* wg.wait().await returns: every worker is done
wg_wait == exited = 1..Len(childs)

\* sched after the wait group: cleanup unless --no-exit, and return.
Finish ==
    /\ submit_pc = "waiting"
    /\ wg_wait
    /\ cleaned' = ~submit_call.no_exit
    /\ submit_pc' = "returned"
    /\ UNCHANGED <<submit_call, cmds, childs, spawn_i, exited>>
    /\ UNCHANGED <<cluster_vars, ops_vars, prio_vars, sched_vars, pred_vars, plan_vars>>

SubmitNext ==
    \/ \E tags \in JobLists : \E nexec \in 1..2 :
          \E n_plans \in (Len(tags) - 1)..Len(tags) :
             \E scheduler_name \in {"", SCHEDULER_NAME} :
                \E no_run, no_exit \in BOOLEAN : \E first \in 1..Len(Uuids) :
                   SubmitStart(tags, nexec, n_plans, scheduler_name,
                               no_run, no_exit, first)
    \/ \E spawned \in BOOLEAN : SpawnCompute(spawned)
    \/ \E spawned \in BOOLEAN : SpawnStorage(spawned)
    \/ \E k \in 1..MaxJobs : WorkerDone(k)
    \/ Finish

SpecSubmit == Init /\ [][SubmitNext]_vars

\* The workloads that have a subprocess, and those of the type ty.
spawned_workloads == {childs[k] : k \in 1..Len(childs)}
workloads_of(ty) == {i \in 1..Len(submit_call.tags) : submit_call.tags[i] = ty}

\* C25: every compute workload's subprocess is spawned before any storage
\* workload's; no workload gets two subprocesses; once the spawn loops are
\* through every workload has one; with --no-run none is spawned.
C25_SubmissionOrder ==
    /\ \A a, b \in 1..Len(childs) :
          a < b => /\ childs[a] # childs[b]
                   /\ ~(submit_call.tags[childs[a]] = "storage"
                         /\ submit_call.tags[childs[b]] = "compute")
    /\ (spawned_workloads \cap workloads_of("storage") # {})
          => workloads_of("compute") \subseteq spawned_workloads
    /\ (submit_pc \in {"waiting", "returned"} /\ ~submit_call.no_run)
          => spawned_workloads = 1..Len(submit_call.tags)
    /\ submit_call.no_run => childs = <<>>

\* C25's case: a batch that lists a storage workload before a compute one
\* has all its subprocesses.
C25_Witness ==
    /\ submit_pc = "waiting"
    /\ \E i, k \in 1..Len(submit_call.tags) :
          i < k /\ submit_call.tags[i] = "storage" /\ submit_call.tags[k] = "compute"

\* C26: the cleanup has run, and sched has returned from a run that spawned,
\* only when every spawned subprocess has exited; a run that waited ran the
\* cleanup unless --no-exit is set, and then it did not.
C26_SubmitterCompletion ==
    /\ cleaned => exited = 1..Len(childs)
    /\ submit_pc = "returned" => exited = 1..Len(childs)
    /\ (submit_pc = "returned" /\ ~submit_call.no_run)
          => cleaned = ~submit_call.no_exit
    /\ submit_call.no_exit => ~cleaned

\* C26's case: sched has returned after the cleanup of a run with several
\* subprocesses.
C26_Witness == submit_pc = "returned" /\ cleaned /\ Len(childs) >= 2

\* The argv carries --conf conf.
has_conf(argv, conf) ==
    \E k \in 1..(Len(argv) - 1) : argv[k] = "--conf" /\ argv[k + 1] = conf

\* C27: the argv of every workload carries a driver label and an executor
\* label for spark-uuid with one identifier, and the workload's type under
\* the key spark-workload-type on both.
C27_LabelCoupling ==
    \A i \in 1..Len(cmds) :
        /\ \E u \in 1..Len(Uuids) :
              /\ has_conf(cmds[i], "spark.kubernetes.driver.label.spark-uuid="
                                      \o Uuids[u])
              /\ has_conf(cmds[i], "spark.kubernetes.executor.label.spark-uuid="
                                      \o Uuids[u])
        /\ has_conf(cmds[i], "spark.kubernetes.driver.label.spark-workload-type="
                                \o submit_call.tags[i])
        /\ has_conf(cmds[i], "spark.kubernetes.executor.label.spark-workload-type="
                                \o submit_call.tags[i])

\* The candidate the storage rule names for the cursor c: the one whose
\* index in all_bws is the smallest index >= c, or, with no such index, the
\* one with the largest index.
storage_rule(cands, c) ==
    LET at_or_after == {n \in cands : index_in_all_bws(n) >= c}
        pool == IF at_or_after # {} THEN at_or_after ELSE cands
    IN {n \in pool :
          \A k \in pool :
             IF at_or_after # {}
             THEN index_in_all_bws(n) <= index_in_all_bws(k)
             ELSE index_in_all_bws(n) >= index_in_all_bws(k)}

\* C28: on the storage path with cursor c for the pod's group, the candidate
\* scored 100 is the one whose index in the ascending bandwidth-sorted list
\* of all nodes is the smallest index >= c, or else the candidate with the
\* largest index, for every candidate set.
C28_StorageSelection ==
    (last_call.valid
        /\ (prio = "NetworkAware" \/ last_call.wtype # DEFAULT_COMPUTE_WORKLOAD))
    => scored_100(last_call.m)
          = storage_rule(last_call.cands,
                         this_choice(last_call.before, last_call.uuid))

\* allocatable minus the summed requests of the pods bound to node n, signed.
remaining_signed(list, n) ==
    [cpu |-> get_allocatable_resources(n).cpu - get_allocated_resources(list, n).cpu,
     mem_kb |-> get_allocatable_resources(n).mem_kb
                   - get_allocated_resources(list, n).mem_kb]

\* C29: judge returns a node if and only if remaining_mc >= req_mc and
\* remaining_kib >= req_kib, remaining being allocatable minus the summed
\* requests of the pods bound to the node; the comparison is inclusive, so
\* a node whose remaining memory equals the request is admitted.
C29_AdmissionRule ==
    judged.valid =>
        \A n \in Nodes :
            n \in judged.node_names
               <=> /\ remaining_signed(judged.pod_list, n).cpu
                         >= judged.pod_resource.millicore
                   /\ remaining_signed(judged.pod_list, n).mem_kb
                         >= judged.pod_resource.mem_kb

(***************************************************************************)
(* SpecCluster: the submitter's get_cluster_state, for any list of nodes.  *)
(* A u32 is an integer as in SpecPlan: a negative x stands for x + 2^32.   *)
(***************************************************************************)
MaxClusterNodes == 3

\* status.allocatable of a node: cpu in cores, memory as a quantity.
NodeCapacities ==
    [cpu : {1, 2, 8},
     memory : {[val |-> 8388608, unit |-> "Ki"], [val |-> 4194304, unit |-> "Ki"]}]

\* The answers to nodes.list.
ClusterNodeLists == UNION {[1..n -> NodeCapacities] : n \in 0..MaxClusterNodes}

\* reserved_core, the value a build without overflow checks gives.
reserved_core(n_node) ==
    IF n_node = 1 THEN 3
    ELSE 3 + (n_node - 2)

\* reserved_core panics in a build with overflow checks.
reserved_core_panics(n_node) == n_node # 1 /\ underflows(n_node, 2)

reserved_mem(n_node) == 5 * 1024 * n_node

\* The digits of the memory quantity parsed, divided by 1024.
mem_mb_from(memory) == memory.val \div 1024

\* The sums over the nodes of the list from the i-th on.
RECURSIVE node_sums(_, _)
node_sums(node_list_, i) ==
    IF i > Len(node_list_) THEN [total_core |-> 0, total_mem_mb |-> 0]
    ELSE LET rest == node_sums(node_list_, i + 1)
         IN [total_core |-> rest.total_core + node_list_[i].cpu,
             total_mem_mb |-> rest.total_mem_mb + mem_mb_from(node_list_[i].memory)]

\* get_cluster_state: the totals of the listed nodes minus the reserved
\* resources.
get_cluster_state(node_list_, overflow_checks) ==
    LET sums == node_sums(node_list_, 1)
        nn == Len(node_list_)
        panicked ==
            overflow_checks
               /\ \/ reserved_core_panics(nn)
                  \/ underflows(sums.total_core, reserved_core(nn))
                  \/ underflows(sums.total_mem_mb, reserved_mem(nn))
    IN [valid |-> TRUE, nr_node |-> nn, overflow_checks |-> overflow_checks,
        reserved_core |-> reserved_core(nn),
        total_core |-> sums.total_core - reserved_core(nn),
        total_mem_mb |-> sums.total_mem_mb - reserved_mem(nn),
        panicked |-> panicked]

GetClusterState(node_list_, overflow_checks) ==
    /\ snapshot' = get_cluster_state(node_list_, overflow_checks)
    /\ UNCHANGED <<ops_vars, submit_vars, prio_vars, sched_vars, pred_vars, plan_vars>>

ClusterNext ==
    \E node_list_ \in ClusterNodeLists : \E overflow_checks \in BOOLEAN :
        GetClusterState(node_list_, overflow_checks)

SpecCluster == Init /\ [][ClusterNext]_vars

\* C31: for every node count n >= 0 the reserved cores are 3 + max(0, n - 2),
\* computed without unsigned underflow, and total_core after the
\* reservation is never negative.
C31_ReservedCores ==
    snapshot.valid =>
        /\ ~snapshot.panicked
        /\ snapshot.reserved_core
              = 3 + (IF snapshot.nr_node >= 2 THEN snapshot.nr_node - 2 ELSE 0)
        /\ snapshot.total_core >= 0

(***************************************************************************)
(* The claims about the scheduler's locks and failed attempts, under Spec  *)
(* and FairSpec.                                                           *)
(***************************************************************************)
\* C32: the section of eval_and_bind from the predicate to the decrement is
\* mutually exclusive: while a task is inside, no other task is or gets
\* inside, it holds the mutex, the cursor map has no other writer and does
\* not change under its write guard, and the node resource map changes only
\* by that task's decrement, never by renew_resource_map.
C32_CriticalSection ==
    [][\A p \in in_critical_section :
          /\ in_critical_section' \subseteq {p}
          /\ nrm_owner = p
          /\ next_choice_writer \in {0, p}
          /\ next_choice_writer = p => next_choice' = next_choice
          /\ node_resource_map' # node_resource_map
                => /\ tasks[p].pc = "bind" /\ tasks'[p].pc = "hist"
                   /\ rpc' = rpc]_vars

\* C32's case: one task holds the mutex and the write guard, waiting for its
\* bind, while another pod's task waits for the mutex and the renewal task
\* is at renew_resource_map.
C32_Witness ==
    \E p, q \in Pods :
       /\ p # q
       /\ tasks[p].pc = "bind" /\ next_choice_writer = p
       /\ tasks[q].pc = "start"
       /\ rpc = "snapshot"

\* The locks a task holds: the mutex, a read guard, the write guard.
locks_held(p) ==
    (IF nrm_owner = p THEN {"node_resource_map"} ELSE {})
        \cup (IF p \in prev_sched_readers THEN {"prev_sched"} ELSE {})
        \cup (IF next_choice_writer = p THEN {"next_choice"} ELSE {})

\* The tasks whose eval_and_bind has returned.
attempt_ended == {p \in Pods : tasks[p].pc \in {"hist", "emit", "done"}}

\* C33: no deadlock: every spawned schedule task runs to its end and every
\* round of the renewal task ends, under every interleaving; and a task
\* whose attempt has ended (placed, no fitting node, or bind failed) holds
\* none of the three locks.
C33_DeadlockFreedom ==
    /\ [](\A p \in attempt_ended : locks_held(p) = {})
    /\ \A p \in Pods : (p \in in_flight) ~> (tasks[p].pc = "done")
    /\ (rpc # "list") ~> (rpc = "list")

\* C33's case: one attempt has ended with a failed bind, and another task
\* has since taken the mutex and the read guard and is about to take the
\* write guard, while the renewal task is about to clear the history.
C33_Witness ==
    \E p, q \in Pods :
       /\ p # q
       /\ p \in attempt_ended /\ ~tasks[p].bind_ok /\ tasks[p].ret # "false"
       /\ tasks[q].pc = "reading" /\ locks_held(q) = {"node_resource_map", "prev_sched"}
       /\ rpc = "clear_hist"

\* C34: when the predicate returns no node for a pod, the attempt issues no
\* bind request and no event, sched_pod returns false, and the cursor map,
\* the history and the node resource map are as before the attempt.
C34_NoFitNoEffect ==
    [][\A p \in Pods :
          (/\ tasks[p].pc = "start" /\ tasks'[p].pc # "start"
           /\ judge(node_resource_map, pod_resource(p)) = {})
          => /\ tasks'[p].pc = "done" /\ tasks'[p].ret = "false"
             /\ tasks'[p].best = "" /\ ~tasks'[p].bind_ok
             /\ tasks'[p].bound_at = 0 /\ cluster' = cluster
             /\ tasks'[p].event = NoEvent /\ tasks'[p].event_result = "none"
             /\ next_choice' = next_choice
             /\ prev_sched' = prev_sched
             /\ node_resource_map' = node_resource_map]_vars

\* C34's case: an attempt has ended with no fitting node while the cursor
\* map and the history carry the placement of another pod.
C34_Witness ==
    \E p \in Pods :
       /\ tasks[p].pc = "done" /\ tasks[p].ret = "false" /\ tasks[p].best = ""
       /\ next_choice # EmptyMap
       /\ prev_sched # EmptyMap
       /\ node_resource_map # renew_resource_map

\* C35: when the bind of an attempt fails, the cursor of the pod's group is
\* what it was before the attempt; and the node resource map is decremented
\* at the chosen node by the pod's request when the bind succeeded, and
\* unchanged when it failed.
C35_CursorFollowsPlacements ==
    [][\A p \in Pods :
          (tasks[p].pc = "bind" /\ tasks'[p].pc = "hist")
          => IF tasks'[p].bind_ok
             THEN node_resource_map' =
                     [node_resource_map EXCEPT
                         ![tasks[p].best].cpu = @ - pod_resource(p).cpu,
                         ![tasks[p].best].mem_kb = @ - pod_resource(p).mem_kb]
             ELSE /\ node_resource_map' = node_resource_map
                  /\ choice_get(next_choice', get_pod_uuid(p)) = tasks[p].c_before]_vars

(***************************************************************************)
(* More claims about the priority function, under SpecPrio.                *)
(***************************************************************************)
\* C36: for every non-empty candidate list the score map a priority call
\* returns (compute path and storage path) has exactly the candidates as
\* keys, one candidate with score 100 and every other candidate with 0.
C36_ScoreMapShape ==
    last_call.valid
    => /\ DOMAIN last_call.m = last_call.cands
       /\ Cardinality(scored_100(last_call.m)) = 1
       /\ \A n \in last_call.cands : last_call.m[n] \in {0, 100}

\* C36's case: a compute pod's call of WorkloadNetworkAwarePriority with
\* several candidates, after storage calls have moved another cursor.
C36_Witness ==
    /\ last_call.valid /\ prio = "WorkloadNetworkAware"
    /\ last_call.wtype = DEFAULT_COMPUTE_WORKLOAD
    /\ Cardinality(last_call.cands) >= 2
    /\ calls[last_call.uuid] >= 2
    /\ \E g \in DOMAIN last_call.before : last_call.before[g] >= 1

\* C37: every value stored in the cursor map is in 0 .. |all nodes| - 1,
\* after any priority calls with any candidate sets and any renewals.
C37_CursorRange ==
    \A g \in DOMAIN next_choice : next_choice[g] \in 0..(nr_node - 1)

\* C37's case: a call with the cursor at the last index and a candidate
\* list that is not the whole cluster has wrapped the cursor to 0.
C37_Witness ==
    /\ last_call.valid /\ last_call.cands # Nodes
    /\ last_call.uuid \in DOMAIN last_call.before
    /\ last_call.before[last_call.uuid] = nr_node - 1
    /\ next_choice = last_call.after
    /\ next_choice[last_call.uuid] = 0

\* C38: a call of WorkloadNetworkAwarePriority for a pod labelled compute
\* that has at least one candidate returns without inserting or changing any
\* entry of the cursor map.
C38_ComputeLeavesCursor ==
    (/\ last_call.valid /\ prio = "WorkloadNetworkAware"
     /\ last_call.wtype = DEFAULT_COMPUTE_WORKLOAD
     /\ last_call.cands # {})
    => /\ last_call.after = last_call.before
       /\ next_choice = last_call.before

\* C38's case: a compute pod's call when the cursor map holds the cursor of
\* a storage group and none for the compute pod's group.
C38_Witness ==
    /\ last_call.valid /\ prio = "WorkloadNetworkAware"
    /\ last_call.wtype = DEFAULT_COMPUTE_WORKLOAD
    /\ last_call.before # EmptyMap
    /\ last_call.uuid \notin DOMAIN next_choice

\* C39: a priority call for a pod of group g changes at most the cursor
\* entry of g: every other group's entry is as before the call, present or
\* absent.
C39_GroupIndependence ==
    last_call.valid
    => \A u \in Groups \ {last_call.uuid} :
          choice_get(last_call.after, u) = choice_get(last_call.before, u)

\* C39's case: a call that moves the cursor of its group while another
\* group's cursor is in the map at another value.
C39_Witness ==
    /\ last_call.valid
    /\ choice_get(last_call.after, last_call.uuid)
          # choice_get(last_call.before, last_call.uuid)
    /\ \E u \in DOMAIN last_call.before :
          /\ u # last_call.uuid
          /\ <<last_call.before[u]>> # choice_get(last_call.after, last_call.uuid)

(***************************************************************************)
(* The claim about the rebalance of the WorkloadAwareFairPlanner, under    *)
(* SpecPlan.                                                               *)
(***************************************************************************)
\* The plans whose nexec has wrapped below 0: as u32 values the nexec of ps
\* sum to sum_nexec(ps, 1) + 2^32 * wrapped(ps).
wrapped(ps) == Cardinality({i \in 1..Len(ps) : ps[i].nexec < 0})

\* The executors the storage plan at the 0-based index k has received.
received(gaps, k) ==
    IF k \in DOMAIN core_gap0 THEN core_gap0[k] - gaps[k] ELSE 0

\* C40: every pass of the work-stealing loop moves executors one by one from
\* compute plans with nexec > 1 to the gap-bearing storage plan it is at:
\* each giving plan is a compute plan that had nexec > 1, gives one and
\* keeps nexec >= 1, the plan at idx is a storage plan with an open gap and
\* receives what the others give and no more than its recorded gap, and the
\* sum of nexec over all plans, as u32 values, is the same before and after.
C40_RebalanceConservation ==
    [][(plan_pc = "steal" /\ plans' # plans)
          => LET idx == gap_idx + 1
                 givers == {i \in 1..Len(plans) : plans'[i].nexec # plans[i].nexec} \ {idx}
             IN /\ plan_call.workload_types[idx] = "storage"
                /\ core_gap[gap_idx] > 0
                /\ \A i \in givers :
                      /\ plan_call.workload_types[i] = "compute"
                      /\ plans[i].nexec > 1
                      /\ plans'[i].nexec = plans[i].nexec - 1
                /\ Cardinality(givers) >= 1
                /\ plans'[idx].nexec = plans[idx].nexec + Cardinality(givers)
                /\ received(core_gap', gap_idx) = received(core_gap, gap_idx) + Cardinality(givers)
                /\ received(core_gap', gap_idx) <= core_gap0[gap_idx]
                /\ sum_nexec(plans', 1) = sum_nexec(plans, 1)
                /\ wrapped(plans') = wrapped(plans)]_vars

====
